---- MODULE Spec2Model ----
(***************************************************************************)
(* Model of the agent-node execution core of agent-builder:                *)
(*   - TokenBucket / ProviderRateLimiter   (src/lib/workflow/token-bucket.ts) *)
(*   - executeAgentNode and its dispatcher (src/unnamed/part_005)           *)
(*   - rate-limit utilities                (src/unnamed/part_005)           *)
(*                                                                         *)
(* Time is in integer milliseconds (Date.now()).  Token counts are kept in *)
(* thousandths of a token, so that elapsed_ms / 1000 * tokensPerSecond is   *)
(* the exact integer elapsed_ms * tokensPerSecond.                         *)
(***************************************************************************)
EXTENDS Integers, Sequences, FiniteSets, TLC

VARIABLES
    now,       \* Date.now(), ms
    bucket,    \* a stand-alone TokenBucket (fields of the class)
    waiter,    \* the pending TokenBucket.waitForToken call, if any
    call,      \* last completed public TokenBucket call: operation, pre-state, result
    win,       \* observation window over successful consumes
    buckets,   \* providerRateLimiter.buckets: provider id -> TokenBucket
    exec,      \* one executeAgentNode call: its arguments, locals and outcome
    calls,     \* the executeAgentNodeInternal invocations made so far, in order
    waiters,   \* concurrent providerRateLimiter.waitForToken calls, by execution
    approvals, \* rows of the approvals table, by approvalId
    reply,     \* last completed call of the approvals module and what it returned
    disp,      \* one OpenAI dispatch with MCP tools: its locals and outcome
    fn         \* last application of a pure helper: arguments and result

vars ==
    <<now, bucket, waiter, call, win, buckets, exec, calls,
      waiters, approvals, reply, disp, fn>>

\* the state of the components an executor or bucket step does not touch
restVars == <<waiters, approvals, reply, disp, fn>>

\* the components that take no part in the behaviour at hand hold <<>>
RestIdle ==
    /\ waiters = <<>>
    /\ approvals = <<>>
    /\ reply = <<>>
    /\ disp = <<>>
    /\ fn = <<>>

(***************************************************************************)
(* Bounds of the model                                                     *)
(***************************************************************************)
MaxTime == 800                        \* the clock stops advancing here
MaxWinCount == 12                     \* consumes counted in one window

Delays == {0, 100, 300}               \* ms between one event and the next
Lateness == {0, 100}                  \* ms by which a timer may fire late
TimeoutChoices == {-100, 0, 50, 350, 500}  \* timeoutMs arguments tried

(***************************************************************************)
(* Program constants                                                       *)
(***************************************************************************)
MsPerSecond == 1000                   \* "/ 1000" of refillTokens; also the token unit
PollIntervalMs == 100                 \* setTimeout(resolve, 100)

Min(a, b) == IF a <= b THEN a ELSE b

\* a whole token in the unit of bucket.tokens
OneToken == MsPerSecond

\* new TokenBucket(tokensPerSecond, maxTokens)
NewBucket(tps, max, t) ==
    [tokens |-> max * OneToken, lastRefill |-> t,
     tokensPerSecond |-> tps, maxTokens |-> max]

\* refillTokens without the Math.min cap
RefillTokens_NoCap(b, t) ==
    [b EXCEPT !.tokens = b.tokens + (t - b.lastRefill) * b.tokensPerSecond,
              !.lastRefill = t]

\* TokenBucket.refillTokens
RefillTokens(b, t) ==
    [b EXCEPT !.tokens = Min(b.maxTokens * OneToken,
                             b.tokens + (t - b.lastRefill) * b.tokensPerSecond),
              !.lastRefill = t]

\* tryConsume that tests tokens > 1 and takes the token before refilling
TryConsume_Strict(b, t) ==
    LET r == RefillTokens(b, t) IN
    IF r.tokens > OneToken
      THEN [bucket |-> [r EXCEPT !.tokens = @ - OneToken], ret |-> TRUE]
      ELSE [bucket |-> r, ret |-> FALSE]

\* TokenBucket.tryConsume: the bucket after the call and the value returned
TryConsume(b, t) ==
    LET r == RefillTokens(b, t) IN
    IF r.tokens >= OneToken
      THEN [bucket |-> [r EXCEPT !.tokens = @ - OneToken], ret |-> TRUE]
      ELSE [bucket |-> r, ret |-> FALSE]

\* TokenBucket.getTokenCount
GetTokenCount(b, t) ==
    LET r == RefillTokens(b, t) IN [bucket |-> r, ret |-> r.tokens]

\* TokenBucket.getTimeUntilNextToken: the result in ms is the fraction num/den
GetTimeUntilNextToken(b, t) ==
    LET r == RefillTokens(b, t) IN
    IF r.tokens >= OneToken
      THEN [bucket |-> r, num |-> 0, den |-> r.tokensPerSecond]
      ELSE [bucket |-> r, num |-> OneToken - r.tokens, den |-> r.tokensPerSecond]

(***************************************************************************)
(* ProviderRateLimiter                                                     *)
(***************************************************************************)

\* new ProviderRateLimiter(), constructed at time t
NewProviderRateLimiter(t) ==
    [p \in {"anthropic", "openai", "groq"} |->
       CASE p = "anthropic" -> NewBucket(3, 5, t)
         [] p = "openai"    -> NewBucket(10, 20, t)
         [] p = "groq"      -> NewBucket(15, 30, t)]

\* a registry whose fallback is its most generous bucket
GetBucket_Generous(bs, provider) ==
    IF provider \in DOMAIN bs THEN provider ELSE "groq"

\* ProviderRateLimiter.getBucket: the key of the bucket handed out
GetBucket(bs, provider) ==
    IF provider \in DOMAIN bs THEN provider ELSE "anthropic"

\* other executions take every token the bucket can give at time t
RECURSIVE DrainByOthers(_, _)
DrainByOthers(b, t) ==
    LET r == TryConsume(b, t) IN
    IF r.ret THEN DrainByOthers(r.bucket, t) ELSE r.bucket

(***************************************************************************)
(* Strings                                                                 *)
(***************************************************************************)

\* String.prototype.includes
Includes(s, m) ==
    \E i \in 1..(Len(s) - Len(m) + 1) : SubSeq(s, i, i + Len(m) - 1) = m

\* String.prototype.indexOf for a one-character pattern, 1-based; 0 if absent
IndexOf(s, c) ==
    IF \E i \in 1..Len(s) : SubSeq(s, i, i) = c
      THEN CHOOSE i \in 1..Len(s) :
             /\ SubSeq(s, i, i) = c
             /\ \A j \in 1..(i - 1) : SubSeq(s, j, j) # c
      ELSE 0

\* the value of a number that is not a number
NaN == -999999999

DigitValue(c) ==
    CASE c = "0" -> 0 [] c = "1" -> 1 [] c = "2" -> 2 [] c = "3" -> 3
      [] c = "4" -> 4 [] c = "5" -> 5 [] c = "6" -> 6 [] c = "7" -> 7
      [] c = "8" -> 8 [] c = "9" -> 9 [] OTHER -> NaN

\* value of the longest prefix of decimal digits of s, read after acc
RECURSIVE ParseDigits(_, _, _)
ParseDigits(s, i, acc) ==
    IF i > Len(s) \/ DigitValue(SubSeq(s, i, i)) = NaN
      THEN acc
      ELSE ParseDigits(s, i + 1, acc * 10 + DigitValue(SubSeq(s, i, i)))

\* parseInt(s) for an unsigned decimal string
ParseInt(s) ==
    IF Len(s) = 0 \/ DigitValue(SubSeq(s, 1, 1)) = NaN
      THEN NaN
      ELSE ParseDigits(s, 1, 0)

Pad3(n) ==
    IF n < 10 THEN "00" \o ToString(n)
    ELSE IF n < 100 THEN "0" \o ToString(n) ELSE ToString(n)

\* Number.prototype.toLocaleString (en-US) for a non-negative integer or NaN
RECURSIVE ToLocaleString(_)
ToLocaleString(n) ==
    IF n = NaN THEN "NaN"
    ELSE IF n < 1000 THEN ToString(n)
    ELSE ToLocaleString(n \div 1000) \o "," \o Pad3(n % 1000)

\* a number inside a template literal
NumberToString(n) == IF n = NaN THEN "NaN" ELSE ToString(n)

\* a || b for strings
OrElse(a, b) == IF a = "" THEN b ELSE a

(***************************************************************************)
(* Dates: the clock reads 0 at 2026-01-01T00:00:00Z                        *)
(***************************************************************************)

\* new Date(s).getTime(), on the model's clock
DateGetTime(s) ==
    CASE s = "2026-01-01T00:10:00Z" -> 600000
      [] OTHER -> NaN

\* new Date(s).toLocaleTimeString() (en-US, UTC)
ToLocaleTimeString(s) ==
    CASE s = "2026-01-01T00:10:00Z" -> "12:10:00 AM"
      [] OTHER -> "Invalid Date"

\* Math.ceil(a / b) for b > 0
CeilDiv(a, b) == -((-a) \div b)

(***************************************************************************)
(* Rate-limit utilities                                                    *)
(***************************************************************************)

\* an Error object: new Error(message), with nothing attached
\* error.headers: absent, a plain object (no get method), or a Headers object
\* whose get returns the value or null ("" here)
NoHeaders == [kind |-> "none"]
PlainHeaders == [kind |-> "plain"]
HeadersOf(retryAfter, remaining, limit, reset) ==
    [kind |-> "Headers", retryAfter |-> retryAfter, remaining |-> remaining,
     limit |-> limit, reset |-> reset]

\* new Error(message): an Error with no headers attached
NewError(message) == [isError |-> TRUE, message |-> message, headers |-> NoHeaders]

\* headers.get?.(name) || fallback; get returns null for a header the
\* response does not carry
HeaderOr(h, name, fallback) ==
    IF h.kind = "Headers" /\ name \in DOMAIN h
      THEN OrElse(h[name], fallback)
      ELSE fallback

Null == [isNull |-> TRUE]

\* an extractor whose retryAfter falls back to 30
ExtractRateLimitInfo_ShortFallback(error) ==
    IF error.headers.kind = "none" THEN Null
    ELSE LET h == error.headers IN
         [isNull |-> FALSE,
          retryAfter |-> ParseInt(HeaderOr(h, "retryAfter", "30")),
          resetTime |-> HeaderOr(h, "reset", ""),
          remainingTokens |-> ParseInt(HeaderOr(h, "remaining", "0")),
          limitTokens |-> ParseInt(HeaderOr(h, "limit", "30000")),
          outputTokensRemaining |-> ParseInt(HeaderOr(h, "outputRemaining", "0")),
          outputTokensLimit |-> ParseInt(HeaderOr(h, "outputLimit", "8000")),
          requestsRemaining |-> ParseInt(HeaderOr(h, "requestsRemaining", "0")),
          requestsLimit |-> ParseInt(HeaderOr(h, "requestsLimit", "50")),
          totalTokensRemaining |-> ParseInt(HeaderOr(h, "totalRemaining", "0")),
          totalTokensLimit |-> ParseInt(HeaderOr(h, "totalLimit", "38000"))]

\* extractRateLimitInfo
ExtractRateLimitInfo(error) ==
    IF error.headers.kind = "none" THEN Null
    ELSE LET h == error.headers IN
         [isNull |-> FALSE,
          retryAfter |-> ParseInt(HeaderOr(h, "retryAfter", "60")),
          resetTime |-> HeaderOr(h, "reset", ""),
          remainingTokens |-> ParseInt(HeaderOr(h, "remaining", "0")),
          limitTokens |-> ParseInt(HeaderOr(h, "limit", "30000")),
          outputTokensRemaining |-> ParseInt(HeaderOr(h, "outputRemaining", "0")),
          outputTokensLimit |-> ParseInt(HeaderOr(h, "outputLimit", "8000")),
          requestsRemaining |-> ParseInt(HeaderOr(h, "requestsRemaining", "0")),
          requestsLimit |-> ParseInt(HeaderOr(h, "requestsLimit", "50")),
          totalTokensRemaining |-> ParseInt(HeaderOr(h, "totalRemaining", "0")),
          totalTokensLimit |-> ParseInt(HeaderOr(h, "totalLimit", "38000"))]

\* a decision that never looks at the reset time
ShouldRetry_IgnoresReset(rateLimitInfo, maxRetries, t) ==
    IF rateLimitInfo.isNull THEN FALSE
    ELSE maxRetries > 0

\* shouldRetry(rateLimitInfo, maxRetries), called at time t; a comparison
\* with the NaN of an invalid date is false
ShouldRetry(rateLimitInfo, maxRetries, t) ==
    IF rateLimitInfo.isNull THEN FALSE
    ELSE IF maxRetries <= 0 THEN FALSE
    ELSE IF rateLimitInfo.remainingTokens = 0
      THEN LET resetTime == DateGetTime(rateLimitInfo.resetTime)
           IN ~(resetTime # NaN /\ resetTime - t > 5 * 60 * 1000)
    ELSE TRUE

\* getRateLimitMessage, called at time t
GetRateLimitMessage(info, t) ==
    IF info.isNull THEN "Rate limited. Please wait a moment and try again."
    ELSE IF info.remainingTokens = 0
      THEN LET reset == DateGetTime(info.resetTime)
               minutesUntilReset ==
                 IF reset = NaN THEN NaN ELSE CeilDiv(reset - t, 1000 * 60)
           IN "Rate limit exceeded. You've used all "
                \o ToLocaleString(info.limitTokens)
                \o " tokens. Please wait " \o NumberToString(minutesUntilReset)
                \o " minutes until the limit resets at "
                \o ToLocaleTimeString(info.resetTime) \o "."
      ELSE "Rate limited. " \o ToLocaleString(info.remainingTokens)
             \o " tokens remaining. Please wait "
             \o NumberToString(info.retryAfter) \o " seconds before retrying."

\* error instanceof Error ? error.message : 'Unknown error'
ErrorMessageOf(error) == IF error.isError THEN error.message ELSE "Unknown error"

\* errorMessage.includes('rate limit') || errorMessage.includes('429')
IsRateLimitMessage(msg) == Includes(msg, "rate limit") \/ Includes(msg, "429")

(***************************************************************************)
(* executeAgentNode and executeAgentNodeInternal                           *)
(***************************************************************************)
DefaultMaxRetries == 3                \* maxRetries: number = 3
TokenWaitTimeoutMs == 30000           \* waitForToken(provider, 30000)
DefaultRetryAfter == 60               \* rateLimitInfo?.retryAfter || 60
BackoffBaseMs == 1000                 \* 1000 * Math.pow(2, attempt)

MaxBudget == 3                        \* largest maxRetries argument tried

\* node.data.model: "" stands for an absent (or empty) model
ModelStrings ==
    {"groq/llama-70b", "anthropic/claude-sonnet-4-5", "gpt-4o", "mistral/large", ""}

\* the apiKeys argument: an object with every key, an object with none, undefined
AllKeys == [present |-> TRUE, anthropic |-> "sk-ant", openai |-> "sk-oai", groq |-> "gsk"]
NoKeys == [present |-> TRUE, anthropic |-> "", openai |-> "", groq |-> ""]
UndefinedKeys == [present |-> FALSE, anthropic |-> "", openai |-> "", groq |-> ""]

\* what the provider's SDK can throw: messages and attached headers
ProviderErrors ==
    LET ErrorMessages ==
          { "429 Too Many Requests",
            "You have hit the rate limit",
            "Rate limit reached",
            "Incorrect API key provided",
            "Connection reset by peer" }
        ErrorHeaders ==
          { NoHeaders,
            PlainHeaders,
            HeadersOf("1", "", "", ""),
            HeadersOf("1", "429", "", ""),
            HeadersOf("0", "1000", "", ""),
            HeadersOf("", "0", "50000", "2026-01-01T00:10:00Z") }
    IN { [isError |-> TRUE, message |-> m, headers |-> h] :
           m \in ErrorMessages, h \in ErrorHeaders }
         \cup { [isError |-> FALSE, message |-> "", headers |-> NoHeaders] }

\* what one provider call does: answer with a text, or throw
ProviderOutcomes ==
    { [ok |-> TRUE, text |-> x, error |-> NewError("")] :
        x \in {"first answer", "second answer"} }
    \cup { [ok |-> FALSE, text |-> "", error |-> e] : e \in ProviderErrors }

\* node.data.model?.split('/')[0] || 'anthropic'
RateLimiterProvider(model) ==
    LET i == IndexOf(model, "/")
        first == IF i = 0 THEN model ELSE SubSeq(model, 1, i - 1)
    IN OrElse(first, "anthropic")

\* the dispatcher's parse of the model string
DispatchProvider(model) ==
    LET modelString == OrElse(model, "anthropic/claude-sonnet-4-5-20250929") IN
    IF Includes(modelString, "/")
      THEN SubSeq(modelString, 1, IndexOf(modelString, "/") - 1)
      ELSE "openai"

\* a branch test that looks at the provider only, not at its key
HasKeyFor_ProviderOnly(apiKeys, provider) ==
    provider \in {"anthropic", "openai", "groq"}

\* provider === p && apiKeys?.[p], for one of the three branches
HasKeyFor(apiKeys, provider) ==
    /\ provider \in {"anthropic", "openai", "groq"}
    /\ apiKeys[provider] # ""

\* a catch block whose last branch drops the original message
InternalCatch_DropsMessage(error, t) ==
    LET errorMessage == ErrorMessageOf(error) IN
    IF Includes(errorMessage, "API key") \/ Includes(errorMessage, "api_key")
      THEN NewError("Missing API key. Please add your LLM provider key in Settings.")
    ELSE IF IsRateLimitMessage(errorMessage)
      THEN NewError(GetRateLimitMessage(ExtractRateLimitInfo(error), t))
    ELSE NewError("Agent execution failed")

\* the catch block of executeAgentNodeInternal: the error it throws instead
InternalCatch(error, t) ==
    LET errorMessage == ErrorMessageOf(error) IN
    IF Includes(errorMessage, "API key") \/ Includes(errorMessage, "api_key")
      THEN NewError("Missing API key. Please add your LLM provider key in Settings.")
    ELSE IF IsRateLimitMessage(errorMessage)
      THEN NewError(GetRateLimitMessage(ExtractRateLimitInfo(error), t))
    ELSE IF Includes(errorMessage, "No API key available")
      THEN NewError("No API key configured. Please add an Anthropic, OpenAI, or Groq API key in your .env.local file.")
    ELSE NewError("Agent execution failed: " \o errorMessage)

NoValue == [agentValue |-> "", toolCalls |-> <<>>]

\* executeAgentNodeInternal(node, state, apiKeys) at time t, the provider
\* behaving as o: what it returns or throws, and whether the provider was called
ExecuteAgentNodeInternal(model, apiKeys, o, t) ==
    LET provider == DispatchProvider(model)
        body ==
          IF ~apiKeys.present
            THEN [thrown |-> TRUE, called |-> FALSE,
                  error |-> NewError("API keys are required for server-side execution")]
          ELSE IF HasKeyFor(apiKeys, provider)
            THEN [thrown |-> ~o.ok, called |-> TRUE, error |-> o.error]
          ELSE [thrown |-> TRUE, called |-> FALSE,
                error |-> NewError("No API key available for provider: " \o provider)]
    IN IF body.thrown
         THEN [kind |-> "throw", called |-> body.called, value |-> NoValue,
               error |-> InternalCatch(body.error, t)]
         ELSE [kind |-> "return", called |-> body.called,
               value |-> [agentValue |-> o.text, toolCalls |-> <<>>],
               error |-> NewError("")]

\* the catch block of executeAgentNode at time t: rethrow, or back off
OuterCatch(error, attempt, maxRetries, t) ==
    LET errorMessage == ErrorMessageOf(error) IN
    IF IsRateLimitMessage(errorMessage)
      THEN LET rateLimitInfo == ExtractRateLimitInfo(error) IN
           IF attempt = maxRetries
             THEN [kind |-> "throw", delay |-> 0,
                   error |-> NewError(GetRateLimitMessage(rateLimitInfo, t))]
             ELSE LET retryAfter ==
                        IF rateLimitInfo.isNull THEN DefaultRetryAfter
                        ELSE IF rateLimitInfo.retryAfter \in {0, NaN}
                          THEN DefaultRetryAfter
                        ELSE rateLimitInfo.retryAfter
                  IN [kind |-> "backoff", error |-> error,
                      delay |-> Min(retryAfter * 1000, BackoffBaseMs * (2 ^ attempt))]
      ELSE [kind |-> "throw", delay |-> 0, error |-> error]

NoResult == [kind |-> "none", value |-> NoValue, error |-> NewError("")]

\* executeAgentNode(node, state, apiKeys, maxRetries) entered
NewExec(model, apiKeys, maxRetries) ==
    [pc |-> "attempt", model |-> model, apiKeys |-> apiKeys,
     maxRetries |-> maxRetries, attempt |-> 0, lastError |-> NewError(""),
     contended |-> FALSE, hasToken |-> "none", acquired |-> 0, invocations |-> 0,
     delays |-> <<>>, wakeAt |-> 0, endedAt |-> 0, result |-> NoResult]

NotRunning == [NewExec("", UndefinedKeys, 0) EXCEPT !.pc = "idle"]

\* e after its catch block has handled error at time t
Caught(e, error, t) ==
    LET c == OuterCatch(error, e.attempt, e.maxRetries, t) IN
    IF c.kind = "backoff"
      THEN [e EXCEPT !.pc = "backoff", !.lastError = error,
                     !.delays = Append(@, c.delay), !.wakeAt = t + c.delay]
      ELSE [e EXCEPT !.pc = "done", !.lastError = error, !.endedAt = t,
                     !.result = [kind |-> "throw", value |-> NoValue,
                                 error |-> c.error]]

\* the timeout reported in words the catch block takes for a throttling error
AfterWaitPass_RetriedTimeout(e, w, t) ==
    IF w.pc = "sleep" THEN [e EXCEPT !.pc = "waiting"]
    ELSE IF w.ret THEN [e EXCEPT !.pc = "dispatch", !.hasToken = "yes",
                                 !.acquired = @ + 1]
    ELSE Caught([e EXCEPT !.hasToken = "no"],
                NewError("rate limit token timeout. Please try again later."), t)

\* e after waitForToken has run a loop pass and left its call in state w
AfterWaitPass(e, w, t) ==
    IF w.pc = "sleep" THEN [e EXCEPT !.pc = "waiting"]
    ELSE IF w.ret THEN [e EXCEPT !.pc = "dispatch", !.hasToken = "yes",
                                 !.acquired = @ + 1]
    ELSE Caught([e EXCEPT !.hasToken = "no"],
                NewError("Rate limit token timeout. Please try again later."), t)

NoCall == [op |-> "none", ret |-> FALSE]
IdleWaiter ==
    [pc |-> "idle", startTime |-> 0, timeoutMs |-> 0, wakeAt |-> 0, ret |-> FALSE,
     need |-> 0, late |-> FALSE]
ClosedWin == [open |-> FALSE, start |-> 0, count |-> 0]

\* a successful consume inside the open window is counted
Counted(w, ok) ==
    IF w.open /\ ok THEN [w EXCEPT !.count = @ + 1] ELSE w

\* a stand-alone bucket: anthropicTokenBucket, or the constructor's defaults
InitBucket ==
    /\ now = 0
    /\ \E c \in { [tps |-> 3, max |-> 5], [tps |-> 5, max |-> 10] } :
         bucket = NewBucket(c.tps, c.max, 0)
    /\ waiter = IdleWaiter
    /\ call = NoCall
    /\ win = ClosedWin
    /\ buckets = NewProviderRateLimiter(0)
    /\ exec = NotRunning
    /\ calls = <<>>
    /\ RestIdle

\* a tryConsume() call that leaves lastRefill behind, so that the same
\* elapsed time is credited again by the next refill
CallTryConsume_StaleRefill(d) ==
    LET r == TryConsume(bucket, now + d) IN
    /\ now + d <= MaxTime
    /\ win.count < MaxWinCount
    /\ now' = now + d
    /\ bucket' = [r.bucket EXCEPT !.lastRefill = bucket.lastRefill]
    /\ call' = [op |-> "tryConsume", ret |-> r.ret]
    /\ win' = Counted(win, r.ret)
    /\ UNCHANGED <<waiter, buckets, exec, calls>>
    /\ UNCHANGED restVars

\* d ms after the previous event, a caller other than a pending
\* waitForToken calls tryConsume()
CallTryConsume(d) ==
    LET r == TryConsume(bucket, now + d) IN
    /\ now + d <= MaxTime
    /\ win.count < MaxWinCount
    /\ now' = now + d
    /\ bucket' = r.bucket
    /\ call' = [op |-> "tryConsume", ret |-> r.ret]
    /\ win' = Counted(win, r.ret)
    /\ UNCHANGED <<waiter, buckets, exec, calls>>
    /\ UNCHANGED restVars

\* d ms after the previous event, a caller calls getTokenCount()
CallGetTokenCount(d) ==
    LET r == GetTokenCount(bucket, now + d) IN
    /\ now + d <= MaxTime
    /\ now' = now + d
    /\ bucket' = r.bucket
    /\ call' = [op |-> "getTokenCount", ret |-> FALSE]
    /\ UNCHANGED <<waiter, win, buckets, exec, calls>>
    /\ UNCHANGED restVars

\* d ms after the previous event, a caller calls getTimeUntilNextToken()
CallGetTimeUntilNextToken(d) ==
    LET r == GetTimeUntilNextToken(bucket, now + d) IN
    /\ now + d <= MaxTime
    /\ now' = now + d
    /\ bucket' = r.bucket
    /\ call' = [op |-> "getTimeUntilNextToken", ret |-> r.num = 0]
    /\ UNCHANGED <<waiter, win, buckets, exec, calls>>
    /\ UNCHANGED restVars

\* a loop that still runs when the whole timeout has elapsed
WaitLoopPass_Inclusive(w, b, t) ==
    IF t - w.startTime <= w.timeoutMs
      THEN LET r == TryConsume(b, t) IN
           IF r.ret
             THEN [bucket |-> r.bucket, consumed |-> TRUE,
                   waiter |-> [w EXCEPT !.pc = "returned", !.ret = TRUE]]
             ELSE [bucket |-> r.bucket, consumed |-> FALSE,
                   waiter |-> [w EXCEPT !.pc = "sleep",
                                         !.wakeAt = t + PollIntervalMs]]
      ELSE [bucket |-> b, consumed |-> FALSE,
            waiter |-> [w EXCEPT !.pc = "returned", !.ret = FALSE]]

\* one pass of waitForToken's while loop, run at time t by waiter w on bucket b
WaitLoopPass(w, b, t) ==
    IF t - w.startTime < w.timeoutMs
      THEN LET r == TryConsume(b, t) IN
           IF r.ret
             THEN [bucket |-> r.bucket, consumed |-> TRUE,
                   waiter |-> [w EXCEPT !.pc = "returned", !.ret = TRUE]]
             ELSE [bucket |-> r.bucket, consumed |-> FALSE,
                   waiter |-> [w EXCEPT !.pc = "sleep",
                                         !.wakeAt = t + PollIntervalMs]]
      ELSE [bucket |-> b, consumed |-> FALSE,
            waiter |-> [w EXCEPT !.pc = "returned", !.ret = FALSE]]

\* d ms after the previous event waitForToken(timeoutMs) is called; it runs
\* up to its first await.  need records (1 - tokens) at the call, i.e.
\* getTimeUntilNextToken() * tokensPerSecond / 1000.
CallWaitForToken(d, timeoutMs) ==
    /\ waiter.pc = "idle"
    /\ now + d <= MaxTime
    /\ win.count < MaxWinCount
    /\ LET t == GetTimeUntilNextToken(bucket, now + d)
           w == [IdleWaiter EXCEPT !.startTime = now + d, !.timeoutMs = timeoutMs,
                                   !.need = t.num]
           p == WaitLoopPass(w, bucket, now + d) IN
       /\ bucket' = p.bucket
       /\ waiter' = p.waiter
       /\ win' = Counted(win, p.consumed)
    /\ now' = now + d
    /\ UNCHANGED <<call, buckets, exec, calls>>
    /\ UNCHANGED restVars

\* the 100 ms timer of the pending waitForToken fires, l ms late: the loop
\* runs again
WaitWake(l) ==
    /\ waiter.pc = "sleep"
    /\ now <= waiter.wakeAt + l
    /\ win.count < MaxWinCount
    /\ LET t == waiter.wakeAt + l
           p == WaitLoopPass([waiter EXCEPT !.late = @ \/ l > 0], bucket, t) IN
       /\ now' = t
       /\ bucket' = p.bucket
       /\ waiter' = p.waiter
       /\ win' = Counted(win, p.consumed)
    /\ UNCHANGED <<call, buckets, exec, calls>>
    /\ UNCHANGED restVars

\* the caller of waitForToken has its answer; a new call may be made
WaitReturn ==
    /\ waiter.pc = "returned"
    /\ waiter' = IdleWaiter
    /\ UNCHANGED <<now, bucket, call, win, buckets, exec, calls>>
    /\ UNCHANGED restVars

\* an observer starts counting successful consumes from this instant
OpenWindow ==
    /\ ~win.open
    /\ win' = [open |-> TRUE, start |-> now, count |-> 0]
    /\ UNCHANGED <<now, bucket, waiter, call, buckets, exec, calls>>
    /\ UNCHANGED restVars

\* any sequence of calls on one bucket
NextBucket ==
    \/ \E d \in Delays : CallTryConsume(d)
    \/ \E d \in Delays : CallGetTokenCount(d)
    \/ \E d \in Delays : CallGetTimeUntilNextToken(d)
    \/ \E d \in Delays, t \in TimeoutChoices : CallWaitForToken(d, t)
    \/ \E l \in Lateness : WaitWake(l)
    \/ WaitReturn

SpecBucket == InitBucket /\ [][NextBucket]_vars

\* sequences of tryConsume() calls, observed over a window
NextWindow ==
    \/ \E d \in Delays : CallTryConsume(d)
    \/ OpenWindow

SpecWindow == InitBucket /\ [][NextWindow]_vars

\* waitForToken with no other consumer while it is pending
NextWait ==
    \/ \E d \in Delays : waiter.pc = "idle" /\ CallTryConsume(d)
    \/ \E d \in Delays, t \in TimeoutChoices : CallWaitForToken(d, t)
    \/ \E l \in Lateness : WaitWake(l)
    \/ WaitReturn

SpecWait == InitBucket /\ [][NextWait]_vars

(***************************************************************************)
(* Concurrent executions on providerRateLimiter                            *)
(***************************************************************************)
\* the executions that run at the same time
Executions == {"run1", "run2"}

MaxSharedTime == 500                  \* the clock of the executions stops here

Max(a, b) == IF a >= b THEN a ELSE b

\* an execution that is not inside waitForToken; granted counts the calls of
\* this execution that returned true
IdleExecution(provider) ==
    [pc |-> "idle", provider |-> provider, startTime |-> 0, timeoutMs |-> 0,
     wakeAt |-> 0, ret |-> FALSE, need |-> 0, late |-> FALSE, granted |-> 0]

\* the execution's waitForToken call after a loop pass that left it as w
AfterPass(old, w, consumed) ==
    IF w.pc = "sleep"
      THEN [old EXCEPT !.pc = "sleep", !.startTime = w.startTime,
                       !.timeoutMs = w.timeoutMs, !.wakeAt = w.wakeAt]
      ELSE [IdleExecution(old.provider) EXCEPT
              !.pc = "returned", !.ret = w.ret,
              !.granted = IF consumed THEN old.granted + 1 ELSE old.granted]

InitShared ==
    /\ now = 0
    /\ bucket = NewBucket(3, 5, 0)
    /\ waiter = IdleWaiter
    /\ call = NoCall
    /\ win = ClosedWin
    /\ buckets = NewProviderRateLimiter(0)
    /\ exec = NotRunning
    /\ calls = <<>>
    /\ \E p \in {"anthropic", "mistral"} : waiters = [i \in Executions |-> IdleExecution(p)]
    /\ approvals = <<>>
    /\ reply = <<>>
    /\ disp = <<>>
    /\ fn = <<>>

\* a registry that hands every caller a bucket of its own
LimiterWaitForToken_OwnBucket(i, d, timeoutMs) ==
    /\ waiters[i].pc \in {"idle", "returned"}
    /\ now + d <= MaxSharedTime
    /\ win.count < MaxWinCount
    /\ LET t == now + d
           w == [waiters[i] EXCEPT !.startTime = t, !.timeoutMs = timeoutMs]
           p == WaitLoopPass(w, NewBucket(3, 5, t), t)
       IN /\ now' = t
          /\ waiters' = [waiters EXCEPT ![i] = AfterPass(@, p.waiter, p.consumed)]
          /\ win' = Counted(win, p.consumed)
    /\ UNCHANGED <<bucket, waiter, call, buckets, exec, calls>>
    /\ UNCHANGED <<approvals, reply, disp, fn>>

\* d ms after the previous event execution i calls
\* providerRateLimiter.waitForToken(provider, timeoutMs); the call runs up to
\* its first await on the bucket getBucket hands out
LimiterWaitForToken(i, d, timeoutMs) ==
    /\ waiters[i].pc \in {"idle", "returned"}
    /\ now + d <= MaxSharedTime
    /\ win.count < MaxWinCount
    /\ LET t == now + d
           key == GetBucket(buckets, waiters[i].provider)
           w == [waiters[i] EXCEPT !.startTime = t, !.timeoutMs = timeoutMs]
           p == WaitLoopPass(w, buckets[key], t)
       IN /\ now' = t
          /\ buckets' = [buckets EXCEPT ![key] = p.bucket]
          /\ waiters' = [waiters EXCEPT ![i] = AfterPass(@, p.waiter, p.consumed)]
          /\ win' = Counted(win, p.consumed)
    /\ UNCHANGED <<bucket, waiter, call, exec, calls>>
    /\ UNCHANGED <<approvals, reply, disp, fn>>

\* the 100 ms timer of execution i fires, after every event already handled:
\* the next pass of its polling loop runs
LimiterWake(i) ==
    /\ waiters[i].pc = "sleep"
    /\ Max(now, waiters[i].wakeAt) <= MaxSharedTime
    /\ LET t == Max(now, waiters[i].wakeAt)
           key == GetBucket(buckets, waiters[i].provider)
           p == WaitLoopPass(waiters[i], buckets[key], t)
       IN /\ now' = t
          /\ buckets' = [buckets EXCEPT ![key] = p.bucket]
          /\ waiters' = [waiters EXCEPT ![i] = AfterPass(@, p.waiter, p.consumed)]
          /\ win' = Counted(win, p.consumed)
    /\ UNCHANGED <<bucket, waiter, call, exec, calls>>
    /\ UNCHANGED <<approvals, reply, disp, fn>>

\* executions calling and polling in any interleaving, and a window opened at
\* any moment
NextShared ==
    \/ \E i \in Executions, d \in {0, 200}, x \in {150, 500} :
         LimiterWaitForToken(i, d, x)
    \/ \E i \in Executions : LimiterWake(i)
    \/ OpenWindow

SpecShared == InitShared /\ [][NextShared]_vars

(***************************************************************************)
(* executeAgentNode: steps                                                 *)
(***************************************************************************)
Init ==
    /\ now = 0
    /\ bucket = NewBucket(3, 5, 0)
    /\ waiter = IdleWaiter
    /\ call = NoCall
    /\ win = ClosedWin
    /\ buckets = NewProviderRateLimiter(0)
    /\ \E m \in ModelStrings, k \in {AllKeys, NoKeys, UndefinedKeys}, r \in 0..MaxBudget :
         exec = NewExec(m, k, r)
    /\ calls = <<>>
    /\ RestIdle

\* top of the for loop: the attempt asks the rate limiter for a token and
\* waitForToken runs up to its first await.  With contended, other executions
\* are saturating the provider's bucket while this attempt waits.
AttemptBegin(contended) ==
    /\ exec.pc = "attempt"
    /\ LET key == GetBucket(buckets, RateLimiterProvider(exec.model))
           b == IF contended THEN DrainByOthers(buckets[key], now) ELSE buckets[key]
           w == [IdleWaiter EXCEPT !.startTime = now,
                                   !.timeoutMs = TokenWaitTimeoutMs]
           p == WaitLoopPass(w, b, now)
       IN /\ buckets' = [buckets EXCEPT ![key] = p.bucket]
          /\ waiter' = IF p.waiter.pc = "sleep" THEN p.waiter ELSE IdleWaiter
          /\ exec' = AfterWaitPass([exec EXCEPT !.contended = contended,
                                                !.hasToken = "none"],
                                   p.waiter, now)
    /\ UNCHANGED <<now, bucket, call, win, calls>>
    /\ UNCHANGED restVars

\* the 100 ms timer of the attempt's waitForToken fires
TokenWaitWake ==
    /\ exec.pc = "waiting"
    /\ waiter.pc = "sleep"
    /\ LET t == waiter.wakeAt
           key == GetBucket(buckets, RateLimiterProvider(exec.model))
           b == IF exec.contended THEN DrainByOthers(buckets[key], t)
                                  ELSE buckets[key]
           p == WaitLoopPass(waiter, b, t)
       IN /\ now' = t
          /\ buckets' = [buckets EXCEPT ![key] = p.bucket]
          /\ waiter' = IF p.waiter.pc = "sleep" THEN p.waiter ELSE IdleWaiter
          /\ exec' = AfterWaitPass(exec, p.waiter, t)
    /\ UNCHANGED <<bucket, call, win, calls>>
    /\ UNCHANGED restVars

\* the attempt holds a token: executeAgentNodeInternal is invoked and the
\* provider behaves as o; a failure runs the catch block
Dispatch(o) ==
    /\ exec.pc = "dispatch"
    /\ LET r == ExecuteAgentNodeInternal(exec.model, exec.apiKeys, o, now)
           e == [exec EXCEPT !.invocations = @ + 1]
       IN /\ calls' = Append(calls, [attempt |-> exec.attempt, outcome |-> o,
                                     called |-> r.called, kind |-> r.kind])
          /\ exec' = IF r.kind = "return"
                       THEN [e EXCEPT !.pc = "done", !.endedAt = now,
                                      !.result = [kind |-> "return",
                                                  value |-> r.value,
                                                  error |-> NewError("")]]
                       ELSE Caught(e, r.error, now)
    /\ UNCHANGED <<now, bucket, waiter, call, win, buckets>>
    /\ UNCHANGED restVars

\* a retry that goes to the dispatcher on the token of the attempt before
BackoffWake_ReusesToken ==
    /\ exec.pc = "backoff"
    /\ now' = exec.wakeAt
    /\ exec' = IF exec.attempt + 1 <= exec.maxRetries
                 THEN [exec EXCEPT !.pc = "dispatch", !.attempt = @ + 1]
                 ELSE [exec EXCEPT !.pc = "done", !.attempt = @ + 1,
                                   !.endedAt = exec.wakeAt,
                                   !.result = [kind |-> "throw", value |-> NoValue,
                                               error |-> exec.lastError]]
    /\ UNCHANGED <<bucket, waiter, call, win, buckets, calls>>
    /\ UNCHANGED restVars

\* a loop whose continue does not advance the attempt index
BackoffWake_NoIncrement ==
    /\ exec.pc = "backoff"
    /\ now' = exec.wakeAt
    /\ exec' = [exec EXCEPT !.pc = "attempt"]
    /\ UNCHANGED <<bucket, waiter, call, win, buckets, calls>>
    /\ UNCHANGED restVars

\* the backoff timer fires: continue with the next attempt, or leave the loop
BackoffWake ==
    /\ exec.pc = "backoff"
    /\ now' = exec.wakeAt
    /\ exec' = IF exec.attempt + 1 <= exec.maxRetries
                 THEN [exec EXCEPT !.pc = "attempt", !.attempt = @ + 1]
                 ELSE [exec EXCEPT !.pc = "done", !.attempt = @ + 1,
                                   !.endedAt = exec.wakeAt,
                                   !.result = [kind |-> "throw", value |-> NoValue,
                                               error |-> exec.lastError]]
    /\ UNCHANGED <<bucket, waiter, call, win, buckets, calls>>
    /\ UNCHANGED restVars

Next ==
    \/ \E c \in BOOLEAN : AttemptBegin(c)
    \/ TokenWaitWake
    \/ \E o \in ProviderOutcomes : Dispatch(o)
    \/ BackoffWake

Spec == Init /\ [][Next]_vars

(***************************************************************************)
(* executeAgentNode: claims                                                *)
(***************************************************************************)

\* the provider call failed with a throttling error: its message carries a
\* rate-limit marker ('rate limit' or '429') and is not a credential message
Throttled(o) ==
    /\ ~o.ok
    /\ IsRateLimitMessage(ErrorMessageOf(o.error))
    /\ ~Includes(ErrorMessageOf(o.error), "API key")
    /\ ~Includes(ErrorMessageOf(o.error), "api_key")

\* the provider call failed with a credential error
CredentialFailure(o) ==
    /\ ~o.ok
    /\ \/ Includes(ErrorMessageOf(o.error), "API key")
       \/ Includes(ErrorMessageOf(o.error), "api_key")

\* the retry-after seconds the provider supplied with a rejection, 60 if none
SuppliedRetryAfter(o) ==
    IF o.error.headers.kind = "Headers" /\ o.error.headers.retryAfter # ""
      THEN ParseInt(o.error.headers.retryAfter)
      ELSE DefaultRetryAfter

\* C1: when the provider call of an attempt fails with a throttling error and
\* the attempt index is below maxRetries, executeAgentNode goes on to a further
\* attempt; it stops on throttling only at the last permitted attempt, and
\* then throws a message produced by getRateLimitMessage.
C1_ThrottlingIsRetried ==
    \A i \in 1..Len(calls) :
      (calls[i].called /\ Throttled(calls[i].outcome)) =>
        /\ calls[i].attempt < exec.maxRetries =>
             ~(exec.pc = "done" /\ exec.attempt = calls[i].attempt)
        /\ (exec.pc = "done" /\ exec.attempt = calls[i].attempt) =>
             /\ exec.result.kind = "throw"
             /\ exec.result.error.message \in
                  { GetRateLimitMessage(ExtractRateLimitInfo(calls[i].outcome.error),
                                        exec.endedAt),
                    GetRateLimitMessage(Null, exec.endedAt) }

\* C2: executeAgentNodeInternal is invoked at most maxRetries + 1 times
\* (4 by default) and never again after an invocation that returned.
C2_InvocationsBounded ==
    /\ exec.invocations = Len(calls)
    /\ exec.invocations <= exec.maxRetries + 1
    /\ \A i \in 1..Len(calls) : calls[i].kind = "return" => i = Len(calls)
    /\ \A i \in 1..Len(calls) : calls[i].attempt = i - 1

\* the default budget used up: four invocations, every one throttled
C2_Witness ==
    /\ exec.pc = "done"
    /\ exec.maxRetries = DefaultMaxRetries
    /\ exec.invocations = DefaultMaxRetries + 1
    /\ exec.result.kind = "throw"

\* C3: after attempt k (0-based) fails with rate limiting and is not the last
\* permitted attempt, the suspension is exactly min(r * 1000, 1000 * 2^k) ms,
\* r being the retry-after seconds the provider supplied (60 when none), and
\* so never exceeds r * 1000.
C3_BackoffFollowsProvider ==
    \A i \in 1..Len(exec.delays) :
      i <= Len(calls) =>
        LET r == SuppliedRetryAfter(calls[i].outcome)
            k == calls[i].attempt
        IN /\ exec.delays[i] = Min(r * 1000, 1000 * (2 ^ k))
           /\ exec.delays[i] <= r * 1000

\* C4: a dispatcher failure that is neither a credential failure nor a
\* throttling failure ends executeAgentNode in the attempt in which it occurs:
\* no backoff, no further attempt, and the error thrown is the original message
\* ('Unknown error' for a thrown value that is not an Error) prefixed with
\* "Agent execution failed: ".
C4_OtherFailuresPropagate ==
    \A i \in 1..Len(calls) :
      LET o == calls[i].outcome IN
      (calls[i].called /\ ~o.ok /\ ~Throttled(o) /\ ~CredentialFailure(o)) =>
        /\ i = Len(calls)
        /\ exec.pc = "done"
        /\ exec.attempt = calls[i].attempt
        /\ Len(exec.delays) = calls[i].attempt
        /\ exec.result.kind = "throw"
        /\ exec.result.error.message =
             "Agent execution failed: "
               \o (IF o.error.isError THEN o.error.message ELSE "Unknown error")

\* a connection failure in the second attempt, with retries left
C4_Witness ==
    /\ Len(calls) = 2
    /\ calls[2].called
    /\ calls[2].outcome.error.message = "Connection reset by peer"
    /\ ~calls[2].outcome.ok
    /\ exec.maxRetries = DefaultMaxRetries
    /\ exec.pc = "done"

\* C5: when waitForToken returns false for an attempt, executeAgentNode fails
\* in that attempt with the rate-limit-timeout error: the dispatcher is not
\* invoked for the attempt, there is no backoff and no further attempt.
C5_TokenTimeoutEndsCall ==
    exec.hasToken = "no" =>
      /\ exec.pc = "done"
      /\ exec.result.kind = "throw"
      /\ exec.result.error.message =
           "Rate limit token timeout. Please try again later."
      /\ \A i \in 1..Len(calls) : calls[i].attempt < exec.attempt
      /\ exec.invocations = exec.attempt
      /\ Len(exec.delays) = exec.attempt

\* the token wait of the second attempt timed out with two retries left
C5_Witness ==
    /\ exec.hasToken = "no"
    /\ exec.attempt = 1
    /\ exec.maxRetries = DefaultMaxRetries
    /\ exec.pc = "done"
    /\ now >= TokenWaitTimeoutMs

\* a rejection with a rate-limit marker that carries retry-after = 1
RateLimitSignal1(o) ==
    /\ Throttled(o)
    /\ o.error.headers.kind = "Headers"
    /\ o.error.headers.retryAfter = "1"

\* the invocations so far follow the script: two rate-limit signals with
\* retryAfter = 1, then a success
FollowsScript ==
    /\ Len(calls) >= 1
    /\ Len(calls) <= 3
    /\ \A i \in 1..Len(calls) :
         /\ calls[i].called
         /\ i <= 2 => RateLimitSignal1(calls[i].outcome)
         /\ i = 3 => calls[i].outcome.ok

\* C6: against a dispatcher that fails twice with a rate-limit signal carrying
\* retryAfter = 1 and then succeeds, executeAgentNode with the default budget
\* makes exactly three invocations, takes at least 2 seconds, and returns
\* exactly the third invocation's payload.
C6_TwoFailuresThenSuccess ==
    ( /\ exec.pc = "done"
      /\ exec.maxRetries = DefaultMaxRetries
      /\ exec.model = "groq/llama-70b"
      /\ exec.hasToken = "yes"
      /\ FollowsScript ) =>
        /\ Len(calls) = 3
        /\ exec.invocations = 3
        /\ exec.endedAt >= 2000
        /\ exec.result.kind = "return"
        /\ exec.result.value = [agentValue |-> calls[3].outcome.text,
                                toolCalls |-> <<>>]

(***************************************************************************)
(* Token bucket: claims                                                    *)
(***************************************************************************)

\* C7: tryConsume first refills lazily, tokens = min(maxTokens, tokens +
\* elapsedSeconds * tokensPerSecond); it returns true and takes exactly one
\* token when the refilled count is >= 1, and otherwise returns false and
\* leaves the refilled count as it is.
C7_TryConsumeContract ==
    [][ \A d \in Delays :
          CallTryConsume(d) =>
            LET elapsedMs == now' - bucket.lastRefill
                grown == bucket.tokens + elapsedMs * bucket.tokensPerSecond
                refilled == IF grown > bucket.maxTokens * OneToken
                              THEN bucket.maxTokens * OneToken ELSE grown
            IN  IF refilled >= OneToken
                  THEN call'.ret = TRUE /\ bucket'.tokens = refilled - OneToken
                  ELSE call'.ret = FALSE /\ bucket'.tokens = refilled ]_vars

\* a tryConsume() that found a partly refilled, still insufficient bucket
C7_Witness ==
    /\ call.op = "tryConsume"
    /\ call.ret = FALSE
    /\ bucket.lastRefill = now
    /\ bucket.tokens > 0
    /\ bucket.tokens < OneToken

\* C8: in every state reached by tryConsume, waitForToken, getTokenCount
\* and getTimeUntilNextToken calls, 0 <= tokens <= maxTokens.
C8_TokensInRange ==
    /\ bucket.tokens >= 0
    /\ bucket.tokens <= bucket.maxTokens * OneToken

\* a drained bucket that was refilled up to its capacity again
C8_Witness ==
    /\ call.op = "getTokenCount"
    /\ bucket.lastRefill >= 300
    /\ bucket.tokens = bucket.maxTokens * OneToken
    /\ waiter.pc = "returned"
    /\ waiter.ret = TRUE

\* C9: the number of tryConsume() calls that return true within a window of
\* w seconds never exceeds maxTokens + tokensPerSecond * w.
C9_NeverOverAdmits ==
    win.open =>
      win.count * OneToken
        <= bucket.maxTokens * OneToken + bucket.tokensPerSecond * (now - win.start)

\* a window that admitted more than a full burst, refill included
C9_Witness ==
    /\ win.open
    /\ win.count = bucket.maxTokens + 2
    /\ call.op = "tryConsume"

\* C10: with no other consumer, and timers firing on time: a timeout below
\* the time-to-next-token t makes waitForToken return false, a timeout above t
\* makes it return true, and true is not returned before a token is computable.
\* (t = need / tokensPerSecond ms.)
C10_WaitMatchesTimeToNextToken ==
    (waiter.pc = "returned" /\ ~waiter.late) =>
      /\ (waiter.timeoutMs * bucket.tokensPerSecond < waiter.need
            => waiter.ret = FALSE)
      /\ (waiter.timeoutMs * bucket.tokensPerSecond > waiter.need
            => waiter.ret = TRUE)
      /\ (waiter.ret = TRUE
            => (now - waiter.startTime) * bucket.tokensPerSecond >= waiter.need)

\* the provider the dispatcher selects has no credential in apiKeys
NoCredential ==
    /\ exec.pc # "idle"
    /\ LET provider == DispatchProvider(exec.model) IN
       \/ ~exec.apiKeys.present
       \/ provider \notin DOMAIN exec.apiKeys
       \/ exec.apiKeys[provider] = ""

MissingKeyMessage == "Missing API key. Please add your LLM provider key in Settings."

\* the call never leaves its first attempt and never reaches a provider
FirstAttemptOnly ==
    /\ exec.attempt = 0
    /\ exec.pc # "backoff"
    /\ exec.delays = <<>>
    /\ exec.invocations <= 1
    /\ \A i \in 1..Len(calls) : ~calls[i].called

RECURSIVE SumGranted(_)
SumGranted(S) ==
    IF S = {} THEN 0
    ELSE LET i == CHOOSE x \in S : TRUE IN waiters[i].granted + SumGranted(S \ {i})

\* the bucket every execution of the behaviour draws from
SharedBucket == buckets[GetBucket(buckets, waiters["run1"].provider)]

\* C11: concurrent waitForToken calls for one provider all draw from one
\* shared bucket: in every window the tokens granted exceed
\* capacity + refillRate * windowSeconds by at most one, every grant is a
\* token taken out of that bucket (granted plus remaining tokens never exceed
\* capacity plus refill since construction), and no other bucket is touched.
C11_SharedBucketBoundsGrants ==
    /\ win.open =>
         win.count * OneToken
           <= SharedBucket.maxTokens * OneToken
                + SharedBucket.tokensPerSecond * (now - win.start) + OneToken
    /\ SumGranted(Executions) * OneToken + SharedBucket.tokens
         <= SharedBucket.maxTokens * OneToken
              + SharedBucket.tokensPerSecond * SharedBucket.lastRefill
    /\ \A p \in DOMAIN buckets :
         p # GetBucket(buckets, waiters["run1"].provider) =>
           buckets[p] = NewProviderRateLimiter(0)[p]

\* two executions polling at once, both granted tokens inside one window that
\* has handed out the full burst and refill besides
C11_Witness ==
    /\ win.open
    /\ win.count > SharedBucket.maxTokens
    /\ \A i \in Executions : waiters[i].granted >= 2
    /\ \E i \in Executions : waiters[i].pc = "sleep"

(***************************************************************************)
(* The approvals module (lib/database/approvals.ts) over its table         *)
(***************************************************************************)
MaxWrites == 3                        \* INSERT / UPDATE statements per record
MaxClock == 10                        \* the clock of the table stops here

ApprovalIds == {"ap1", "ap2"}

\* no row with this approvalId; history lists the statuses written so far
NoRow(id) ==
    [present |-> FALSE, approvalId |-> id, status |-> "", respondedBy |-> "",
     respondedAt |-> -1, history |-> <<>>]

\* the columns of a row ("" and -1 are NULL), as a query returns them
RowOf(r) ==
    [approvalId |-> r.approvalId, status |-> r.status,
     respondedBy |-> r.respondedBy, respondedAt |-> r.respondedAt]

NullRow == [approvalId |-> "", status |-> "", respondedBy |-> "", respondedAt |-> -1]

\* SELECT * FROM approvals WHERE "approvalId" = $1, then rows[0] || null
GetApprovalById(table, id) ==
    IF id \in DOMAIN table /\ table[id].present
      THEN [isNull |-> FALSE, row |-> RowOf(table[id])]
      ELSE [isNull |-> TRUE, row |-> NullRow]

InitApprovals ==
    /\ now = 0
    /\ bucket = NewBucket(3, 5, 0)
    /\ waiter = IdleWaiter
    /\ call = NoCall
    /\ win = ClosedWin
    /\ buckets = NewProviderRateLimiter(0)
    /\ exec = NotRunning
    /\ calls = <<>>
    /\ waiters = <<>>
    /\ approvals = [id \in ApprovalIds |-> NoRow(id)]
    /\ reply = [op |-> "none", approvalId |-> "", status |-> "", approval |-> NullRow]
    /\ disp = <<>>
    /\ fn = <<>>

\* createApproval(approval): the row is inserted with the status it is given
CreateApproval(id, status) ==
    /\ ~approvals[id].present
    /\ approvals' = [approvals EXCEPT ![id] =
                       [present |-> TRUE, approvalId |-> id, status |-> status,
                        respondedBy |-> "", respondedAt |-> -1,
                        history |-> <<status>>]]
    /\ reply' = [op |-> "createApproval", approvalId |-> id, status |-> status,
                 approval |-> RowOf(approvals'[id])]
    /\ UNCHANGED <<now, bucket, waiter, call, win, buckets, exec, calls>>
    /\ UNCHANGED <<waiters, disp, fn>>

\* updateApprovalStatus(approvalId, status, respondedBy), d ms after the
\* previous statement: UPDATE ... WHERE "approvalId" = $4 RETURNING *
UpdateApprovalStatus(id, status, respondedBy, d) ==
    /\ Len(approvals[id].history) < MaxWrites
    /\ now + d <= MaxClock
    /\ now' = now + d
    /\ IF approvals[id].present
         THEN approvals' = [approvals EXCEPT
                              ![id].status = status,
                              ![id].respondedBy = respondedBy,
                              ![id].respondedAt = now',
                              ![id].history = Append(@, status)]
         ELSE UNCHANGED approvals
    /\ reply' = [op |-> "updateApprovalStatus", approvalId |-> id,
                 status |-> status,
                 approval |-> GetApprovalById(approvals', id).row]
    /\ UNCHANGED <<bucket, waiter, call, win, buckets, exec, calls>>
    /\ UNCHANGED <<waiters, disp, fn>>

\* a watch that answers with the status alone
WatchApprovalStatus_StatusOnly(id) ==
    /\ LET approval == GetApprovalById(approvals, id) IN
       reply' = IF approval.isNull
                  THEN [op |-> "watchApprovalStatus", approvalId |-> id,
                        status |-> "not_found", approval |-> NullRow]
                  ELSE [op |-> "watchApprovalStatus", approvalId |-> id,
                        status |-> approval.row.status, approval |-> NullRow]
    /\ UNCHANGED <<now, bucket, waiter, call, win, buckets, exec, calls>>
    /\ UNCHANGED <<waiters, approvals, disp, fn>>

\* watchApprovalStatus(approvalId)
WatchApprovalStatus(id) ==
    /\ LET approval == GetApprovalById(approvals, id) IN
       reply' = IF approval.isNull
                  THEN [op |-> "watchApprovalStatus", approvalId |-> id,
                        status |-> "not_found", approval |-> NullRow]
                  ELSE [op |-> "watchApprovalStatus", approvalId |-> id,
                        status |-> approval.row.status, approval |-> approval.row]
    /\ UNCHANGED <<now, bucket, waiter, call, win, buckets, exec, calls>>
    /\ UNCHANGED <<waiters, approvals, disp, fn>>

\* getPendingApprovals / getApprovalsByExecution: SELECTs over the table; the
\* reply names the last row listed
ListApprovals(pendingOnly) ==
    /\ LET listed == { id \in ApprovalIds :
                         /\ approvals[id].present
                         /\ pendingOnly => approvals[id].status = "pending" }
           op == IF pendingOnly THEN "getPendingApprovals"
                                ELSE "getApprovalsByExecution"
       IN reply' = IF listed = {}
                     THEN [op |-> op, approvalId |-> "", status |-> "",
                           approval |-> NullRow]
                     ELSE LET id == CHOOSE x \in listed : TRUE IN
                          [op |-> op, approvalId |-> id,
                           status |-> approvals[id].status,
                           approval |-> RowOf(approvals[id])]
    /\ UNCHANGED <<now, bucket, waiter, call, win, buckets, exec, calls>>
    /\ UNCHANGED <<waiters, approvals, disp, fn>>

\* callers create records as pending; respondedBy "" is an absent argument;
\* statements are 0 or 5 ms apart
NextApprovals ==
    \/ \E id \in ApprovalIds : CreateApproval(id, "pending")
    \/ \E id \in ApprovalIds, s \in {"approved", "rejected"},
          by \in {"", "alice", "bob"}, d \in {0, 5} :
         UpdateApprovalStatus(id, s, by, d)
    \/ \E id \in ApprovalIds : WatchApprovalStatus(id)
    \/ \E p \in BOOLEAN : ListApprovals(p)

SpecApprovals == InitApprovals /\ [][NextApprovals]_vars

\* C12: every ApprovalRecord is created as pending and changes at most once,
\* to approved or rejected: once it is approved or rejected no step changes
\* its status, respondedBy or respondedAt, and no step deletes a record.
C12_TerminalStatusesAreFinal ==
    [][\A id \in ApprovalIds :
         /\ (~approvals[id].present /\ approvals'[id].present)
              => approvals'[id].status = "pending"
         /\ approvals[id].present => approvals'[id].present
         /\ (approvals[id].present
               /\ approvals[id].status \in {"approved", "rejected"})
              => RowOf(approvals'[id]) = RowOf(approvals[id])
         /\ (approvals[id].present /\ approvals[id].status = "pending")
              => approvals'[id].status \in {"pending", "approved", "rejected"}]_vars

\* C13: for a record created as pending and then flipped to approved, every
\* watchApprovalStatus(approvalId) returns status approved together with the
\* full record as stored; and no watchApprovalStatus step writes to the table.
C13_WatchSeesApprovalWithoutWriting ==
    /\ [](reply.op = "watchApprovalStatus" =>
            LET r == approvals[reply.approvalId] IN
            /\ r.present =>
                 /\ reply.status = r.status
                 /\ reply.approval = RowOf(r)
            /\ ~r.present => reply.status = "not_found"
            /\ r.history = <<"pending", "approved">> =>
                 /\ reply.status = "approved"
                 /\ reply.approval.status = "approved"
                 /\ reply.approval.approvalId = reply.approvalId
                 /\ reply.approval.respondedBy = r.respondedBy
                 /\ reply.approval.respondedAt = r.respondedAt)
    /\ [][reply'.op = "watchApprovalStatus" => approvals' = approvals]_vars

\* a record created pending, approved by alice, and then watched
C13_Witness ==
    /\ reply.op = "watchApprovalStatus"
    /\ reply.approvalId = "ap1"
    /\ approvals["ap1"].history = <<"pending", "approved">>
    /\ reply.status = "approved"
    /\ reply.approval.respondedBy = "alice"
    /\ reply.approval.respondedAt = 5

(***************************************************************************)
(* JSON, as far as the tool loop uses it: string literals, and objects     *)
(* with at most one string member; no character needs escaping             *)
(***************************************************************************)
JsString(s) == [t |-> "string", key |-> "", val |-> s]
JsObject(key, val) == [t |-> "object", key |-> key, val |-> val]
JsUndefined == [t |-> "undefined", key |-> "", val |-> ""]

\* JSON.stringify
JsonStringify(v) ==
    IF v.t = "string" THEN "\"" \o v.val \o "\""
    ELSE IF v.key = "" THEN "{}"
    ELSE "{" \o "\"" \o v.key \o "\"" \o ":" \o "\"" \o v.val \o "\"" \o "}"

\* s is a JSON string literal
IsStringLiteral(s) ==
    /\ Len(s) >= 2
    /\ SubSeq(s, 1, 1) = "\""
    /\ SubSeq(s, Len(s), Len(s)) = "\""
    /\ \A i \in 2..(Len(s) - 1) : SubSeq(s, i, i) # "\""

\* JSON.parse: the value, or the SyntaxError it throws
JsonParse(s) ==
    LET c == IndexOf(s, ":")
        Unquote(l) == SubSeq(l, 2, Len(l) - 1)
        syntaxError ==
          [ok |-> FALSE, value |-> JsUndefined,
           message |-> "Unexpected end of JSON input"]
    IN IF IsStringLiteral(s)
         THEN [ok |-> TRUE, value |-> JsString(Unquote(s)), message |-> ""]
       ELSE IF s = "{}"
         THEN [ok |-> TRUE, value |-> JsObject("", ""), message |-> ""]
       ELSE IF /\ Len(s) >= 7
               /\ SubSeq(s, 1, 1) = "{"
               /\ SubSeq(s, Len(s), Len(s)) = "}"
               /\ c > 2
               /\ IsStringLiteral(SubSeq(s, 2, c - 1))
               /\ IsStringLiteral(SubSeq(s, c + 1, Len(s) - 1))
         THEN [ok |-> TRUE, message |-> "",
               value |-> JsObject(Unquote(SubSeq(s, 2, c - 1)),
                                  Unquote(SubSeq(s, c + 1, Len(s) - 1)))]
       ELSE syntaxError

(***************************************************************************)
(* executeAgentNodeInternal, OpenAI branch with MCP tools                  *)
(***************************************************************************)
\* message.content: null, or a text
Content(isNull, text) == [isNull |-> isNull, text |-> text]

\* content || ''
ContentOrEmpty(c) == IF c.isNull THEN "" ELSE c.text

\* the resolved MCP configurations of the node (hasMcpTools holds)
McpToolLists ==
    { << [name |-> "search", toolName |-> "", url |-> "http://mcp/search"] >>,
      << [name |-> "", toolName |-> "lookup", url |-> "http://mcp/lookup"],
         [name |-> "search", toolName |-> "", url |-> "http://mcp/search"] >> }

GoodArguments == "{\"q\":\"mice\"}"
BadArguments == "{\"q\":"

\* tool calls a completion may request
ToolCallLists ==
    LET FirstCalls ==
          { [id |-> "call_1", name |-> n, arguments |-> a] :
              n \in {"search", "lookup"}, a \in {GoodArguments, BadArguments} }
        SecondCalls ==
          { [id |-> "call_2", name |-> "search", arguments |-> a] :
              a \in {GoodArguments, BadArguments} }
    IN
    { <<>> } \cup { <<c>> : c \in FirstCalls }
             \cup { <<c, d>> : c \in FirstCalls, d \in SecondCalls }

\* response.choices[0].message of the first completion
FirstMessages ==
    { [content |-> c, tool_calls |-> l] :
        c \in {Content(TRUE, ""), Content(FALSE, "let me check")}, l \in ToolCallLists }

\* finalResponse.choices[0].message of the follow-up completion
FollowUpMessages ==
    { [content |-> c, tool_calls |-> l] :
        c \in {Content(TRUE, ""), Content(FALSE, ""), Content(FALSE, "final answer")},
        l \in { <<>>,
                << [id |-> "call_9", name |-> "search",
                    arguments |-> GoodArguments] >> } }

NoMessage == [content |-> Content(TRUE, ""), tool_calls |-> <<>>]

\* what a completions.create call does: answer with a message, or throw
CompletionOutcomes(messages) ==
    { [ok |-> TRUE, message |-> m, error |-> NewError("")] : m \in messages }
    \cup { [ok |-> FALSE, message |-> NoMessage,
            error |-> NewError("Connection reset by peer")] }

\* what the POST to an MCP server does: fetch rejects, the body is not JSON,
\* or the body is a JSON document (with or without a result member)
ToolReplies ==
    { [kind |-> "reject", message |-> "fetch failed", body |-> JsUndefined],
      [kind |-> "badBody", message |-> "Unexpected token < in JSON at position 0",
       body |-> JsUndefined],
      [kind |-> "json", message |-> "", body |-> JsObject("result", "3 mice")],
      [kind |-> "json", message |-> "", body |-> JsObject("error", "rpc failed")] }

\* mcpTools.find(m => (m.name || m.toolName) === name): its index, 0 if none
FindServer(mcpTools, name) ==
    IF \E i \in 1..Len(mcpTools) : OrElse(mcpTools[i].name, mcpTools[i].toolName) = name
      THEN CHOOSE i \in 1..Len(mcpTools) :
             /\ OrElse(mcpTools[i].name, mcpTools[i].toolName) = name
             /\ \A j \in 1..(i - 1) :
                  OrElse(mcpTools[j].name, mcpTools[j].toolName) # name
      ELSE 0

ToolResult(id, value) ==
    [tool_call_id |-> id, role |-> "tool", content |-> JsonStringify(value)]

\* the async callback mapped over message.tool_calls, the server answering as
\* answer: the tool message it resolves to, and whether the POST was sent
ExecuteToolCall(mcpTools, toolCall, answer) ==
    LET args == JsonParse(toolCall.arguments)
        caught(message) ==
          ToolResult(toolCall.id, JsObject("error", message))
    IN IF FindServer(mcpTools, toolCall.name) = 0
         THEN [posted |-> FALSE, failed |-> TRUE,
               result |-> caught("MCP server not found for tool: " \o toolCall.name)]
       ELSE IF ~args.ok
         THEN [posted |-> FALSE, failed |-> TRUE, result |-> caught(args.message)]
       ELSE IF answer.kind # "json"
         THEN [posted |-> TRUE, failed |-> TRUE, result |-> caught(answer.message)]
       ELSE [posted |-> TRUE, failed |-> FALSE,
             result |-> ToolResult(toolCall.id,
                          IF answer.body.key = "result" /\ answer.body.val # ""
                            THEN JsString(answer.body.val)
                            ELSE answer.body)]

\* message.tool_calls.map((call, idx) => ({..., arguments: JSON.parse(...),
\* output: JSON.parse(toolResults[idx].content)})): the list, or the
\* SyntaxError of the first element that does not parse
TrackToolCalls(toolCallList, toolResults) ==
    LET bad == { i \in 1..Len(toolCallList) :
                   \/ ~JsonParse(toolCallList[i].arguments).ok
                   \/ ~JsonParse(toolResults[i].content).ok }
        first == CHOOSE i \in bad : \A j \in bad : i <= j
    IN IF bad = {}
         THEN [ok |-> TRUE, message |-> "",
               list |-> [i \in 1..Len(toolCallList) |->
                           [id |-> toolCallList[i].id,
                            name |-> toolCallList[i].name,
                            arguments |-> JsonParse(toolCallList[i].arguments).value,
                            output |-> JsonParse(toolResults[i].content).value]]]
         ELSE [ok |-> FALSE, list |-> <<>>,
               message |->
                 IF ~JsonParse(toolCallList[first].arguments).ok
                   THEN JsonParse(toolCallList[first].arguments).message
                   ELSE JsonParse(toolResults[first].content).message]

\* the dispatch on entering the branch; requests lists the completions.create
\* calls made, posted the tool calls whose POST was sent, failed the indexes
\* of the tool calls whose callback ran its catch
NewDispatch(mcpTools) ==
    [pc |-> "first", mcpTools |-> mcpTools, message |-> NoMessage,
     toolResults |-> <<>>, failed |-> {}, posted |-> {},
     finalOk |-> FALSE, final |-> NoMessage, requests |-> <<>>,
     responseText |-> "", toolCalls |-> <<>>, outcome |-> "none",
     error |-> NewError("")]

\* the branch throws error: the function's catch block rethrows it reworded
Abort(d, error, t) ==
    [d EXCEPT !.pc = "done", !.outcome = "throw", !.error = InternalCatch(error, t)]

InitDispatch ==
    /\ now = 0
    /\ bucket = NewBucket(3, 5, 0)
    /\ waiter = IdleWaiter
    /\ call = NoCall
    /\ win = ClosedWin
    /\ buckets = NewProviderRateLimiter(0)
    /\ exec = NotRunning
    /\ calls = <<>>
    /\ waiters = <<>>
    /\ approvals = <<>>
    /\ reply = <<>>
    /\ \E l \in McpToolLists : disp = NewDispatch(l)
    /\ fn = <<>>

\* the first completions.create call, made with the tools, answers as o
FirstCompletion(o) ==
    /\ disp.pc = "first"
    /\ LET d == [disp EXCEPT !.requests = Append(@, [tools |-> TRUE, results |-> 0])]
       IN disp' =
            IF ~o.ok THEN Abort(d, o.error, now)
            ELSE IF Len(o.message.tool_calls) > 0
              THEN [d EXCEPT !.pc = "tools", !.message = o.message]
            ELSE [d EXCEPT !.pc = "done", !.message = o.message,
                           !.outcome = "return",
                           !.responseText = ContentOrEmpty(o.message.content)]
    /\ UNCHANGED <<now, bucket, waiter, call, win, buckets, exec, calls>>
    /\ UNCHANGED <<waiters, approvals, reply, fn>>

\* Promise.all over message.tool_calls, the servers answering as replies
ExecuteTools(replies) ==
    /\ disp.pc = "tools"
    /\ DOMAIN replies = 1..Len(disp.message.tool_calls)
    /\ LET run == [i \in 1..Len(disp.message.tool_calls) |->
                     ExecuteToolCall(disp.mcpTools, disp.message.tool_calls[i],
                                     replies[i])]
       IN disp' = [disp EXCEPT
                     !.pc = "followUp",
                     !.toolResults = [i \in DOMAIN run |-> run[i].result],
                     !.failed = {i \in DOMAIN run : run[i].failed},
                     !.posted = @ \cup {disp.message.tool_calls[i].id :
                                          i \in {j \in DOMAIN run : run[j].posted}}]
    /\ UNCHANGED <<now, bucket, waiter, call, win, buckets, exec, calls>>
    /\ UNCHANGED <<waiters, approvals, reply, fn>>

\* a loop that runs the tool calls of every response
FollowUpCompletion_Loops(o) ==
    /\ disp.pc = "followUp"
    /\ LET d == [disp EXCEPT
                  !.requests = Append(@, [tools |-> TRUE,
                                          results |-> Len(disp.toolResults)])]
       IN disp' =
            IF ~o.ok THEN Abort(d, o.error, now)
            ELSE IF Len(o.message.tool_calls) > 0 /\ Len(d.requests) < 3
              THEN [d EXCEPT !.pc = "tools", !.message = o.message]
            ELSE [d EXCEPT !.pc = "done", !.finalOk = TRUE, !.final = o.message,
                           !.outcome = "return",
                           !.responseText = ContentOrEmpty(o.message.content)]
    /\ UNCHANGED <<now, bucket, waiter, call, win, buckets, exec, calls>>
    /\ UNCHANGED <<waiters, approvals, reply, fn>>

\* the second completions.create call, made with the tool results and without
\* tools, answers as o; then responseText and toolCalls are set
FollowUpCompletion(o) ==
    /\ disp.pc = "followUp"
    /\ LET d == [disp EXCEPT
                  !.requests = Append(@, [tools |-> FALSE,
                                          results |-> Len(disp.toolResults)])]
           tracked == TrackToolCalls(disp.message.tool_calls, disp.toolResults)
       IN disp' =
            IF ~o.ok THEN Abort(d, o.error, now)
            ELSE IF ~tracked.ok
              THEN Abort([d EXCEPT !.finalOk = TRUE, !.final = o.message,
                                   !.responseText = ContentOrEmpty(o.message.content)],
                         NewError(tracked.message), now)
            ELSE [d EXCEPT !.pc = "done", !.finalOk = TRUE, !.final = o.message,
                           !.outcome = "return",
                           !.responseText = ContentOrEmpty(o.message.content),
                           !.toolCalls = tracked.list]
    /\ UNCHANGED <<now, bucket, waiter, call, win, buckets, exec, calls>>
    /\ UNCHANGED <<waiters, approvals, reply, fn>>

NextDispatch ==
    \/ \E o \in CompletionOutcomes(FirstMessages) : FirstCompletion(o)
    \/ \E n \in 1..2 : \E replies \in [1..n -> ToolReplies] : ExecuteTools(replies)
    \/ \E o \in CompletionOutcomes(FollowUpMessages) : FollowUpCompletion(o)

SpecDispatch == InitDispatch /\ [][NextDispatch]_vars

\* C15: one dispatch makes at most two completion calls, the initial one and,
\* only if it requested tool calls, one follow-up; a dispatch that returns
\* after requested tool calls has made exactly that follow-up; only tool
\* calls of the initial response are ever executed, never those of the
\* follow-up; and the answer returned is the follow-up's content, the empty
\* string if it has none.
C15_AtMostOneToolRound ==
    /\ Len(disp.requests) <= 2
    /\ Len(disp.requests) = 2 => Len(disp.message.tool_calls) > 0
    /\ (disp.outcome = "return" /\ Len(disp.message.tool_calls) > 0)
         => Len(disp.requests) = 2 /\ disp.finalOk
    /\ disp.posted \subseteq
         {disp.message.tool_calls[i].id : i \in 1..Len(disp.message.tool_calls)}
    /\ disp.finalOk =>
         /\ \A i \in 1..Len(disp.final.tool_calls) :
              disp.final.tool_calls[i].id \notin disp.posted
         /\ disp.message \in FirstMessages
         /\ disp.outcome = "return" =>
              disp.responseText = IF disp.final.content.isNull THEN ""
                                  ELSE disp.final.content.text

\* a follow-up that asked for another tool call and carried no content: the
\* dispatch has returned the empty string after two completion calls
C15_Witness ==
    /\ disp.outcome = "return"
    /\ Len(disp.requests) = 2
    /\ disp.finalOk
    /\ Len(disp.final.tool_calls) = 1
    /\ disp.final.content.isNull
    /\ disp.responseText = ""
    /\ disp.posted = {"call_1", "call_2"}

\* the message the callback's catch stores for the failed tool call i
ToolFailureMessage(i) ==
    LET c == disp.message.tool_calls[i] IN
    IF FindServer(disp.mcpTools, c.name) = 0
      THEN "MCP server not found for tool: " \o c.name
    ELSE IF c.arguments = BadArguments THEN "Unexpected end of JSON input"
    ELSE IF c.id \in disp.posted
      THEN JsonParse(disp.toolResults[i].content).value.val
    ELSE "?"

\* C16: when a requested tool call fails (unknown tool server, unparsable
\* arguments, or HTTP failure) its result is the payload {error: message},
\* the follow-up completion call is still made with one result per requested
\* tool call, and the node does not abort because of the tool failure: if the
\* follow-up call answers, the dispatch returns.
C16_ToolFailuresAreCaptured ==
    (disp.pc \in {"followUp", "done"} /\ disp.failed # {}) =>
      /\ Len(disp.toolResults) = Len(disp.message.tool_calls)
      /\ \A i \in disp.failed :
           /\ disp.toolResults[i].tool_call_id = disp.message.tool_calls[i].id
           /\ disp.toolResults[i].content
                = JsonStringify(JsObject("error", ToolFailureMessage(i)))
      /\ disp.pc = "done" =>
           /\ Len(disp.requests) = 2
           /\ disp.requests[2].results = Len(disp.message.tool_calls)
           /\ disp.finalOk => disp.outcome = "return"

(***************************************************************************)
(* lib/mcp/resolver.ts                                                     *)
(***************************************************************************)
MaxIds == 3                           \* longest serverIds list tried

\* elements of the lists kept in node data: a bare server id, or a full
\* configuration object
IdItem(id) == [t |-> "string", id |-> id, name |-> ""]
ObjectItem(name) == [t |-> "object", id |-> "", name |-> name]

KnownIds == {"a", "b"}                \* ids a store may hold

\* the row of the mcpServer table with this id; tools is NULL for "a"
ServerRow(id) ==
    [id |-> id, name |-> "server-" \o id, url |-> "http://mcp/" \o id,
     tools |-> IF id = "a" THEN <<>> ELSE <<"t1">>,
     toolsIsNull |-> id = "a"]

\* rows.map(server => ({name, url, ..., availableTools: server.tools || []}))
ToConfig(server) ==
    [name |-> server.name, url |-> server.url,
     availableTools |-> IF server.toolsIsNull THEN <<>> ELSE server.tools]

\* the lists of bare ids, up to MaxIds long
RECURSIVE IdLists(_)
IdLists(n) ==
    IF n = 0 THEN { <<>> }
    ELSE IdLists(n - 1)
           \cup { Append(l, IdItem(id)) :
                    l \in {x \in IdLists(n - 1) : Len(x) = n - 1}, id \in KnownIds \cup {"missing"} }

\* the orders in which a SELECT without ORDER BY may list the rows of S
RowOrders(S) ==
    { o \in [1..Cardinality(S) -> S] :
        \A i, j \in 1..Cardinality(S) : i # j => o[i] # o[j] }

\* the ids of store that SELECT ... WHERE id = ANY($1) matches
Matching(serverIds, store) ==
    { id \in store : \E i \in 1..Len(serverIds) :
        serverIds[i].t = "string" /\ serverIds[i].id = id }

\* a resolver that refuses a list naming a server the store does not hold
ResolveMCPServers_Strict(serverIds, store, dbOk, order) ==
    IF Len(serverIds) = 0 THEN [raised |-> FALSE, value |-> <<>>]
    ELSE IF serverIds[1].t = "object" THEN [raised |-> FALSE, value |-> serverIds]
    ELSE IF ~dbOk THEN [raised |-> FALSE, value |-> <<>>]
    ELSE IF \E i \in 1..Len(serverIds) : serverIds[i].id \notin store
      THEN [raised |-> TRUE, value |-> <<>>]
    ELSE [raised |-> FALSE,
          value |-> [i \in DOMAIN order |-> ToConfig(ServerRow(order[i]))]]

\* resolveMCPServers(serverIds) against a table holding the rows of store;
\* the query throws unless dbOk, and lists its rows in the given order
ResolveMCPServers(serverIds, store, dbOk, order) ==
    IF Len(serverIds) = 0 THEN [raised |-> FALSE, value |-> <<>>]
    ELSE IF serverIds[1].t = "object" THEN [raised |-> FALSE, value |-> serverIds]
    ELSE IF ~dbOk THEN [raised |-> FALSE, value |-> <<>>]
    ELSE [raised |-> FALSE,
          value |-> [i \in DOMAIN order |-> ToConfig(ServerRow(order[i]))]]

\* values of a field of node data: absent, an array, or a string
Absent == [t |-> "absent", items |-> <<>>, s |-> ""]
JsArray(items) == [t |-> "array", items |-> items, s |-> ""]
JsScalar(s) == [t |-> "string", items |-> <<>>, s |-> s]

\* node data, as far as migrateMCPData reads it, and one field it does not;
\* the arrays in the legacy fields are empty, bare ids, full objects, or both
NodeData ==
    LET ToolLists ==
          { <<>>,
            <<IdItem("a")>>,
            <<IdItem("a"), IdItem("b")>>,
            <<ObjectItem("search")>>,
            <<ObjectItem("search"), ObjectItem("fetch")>>,
            <<IdItem("b"), ObjectItem("fetch")>> }
    IN
    { [isNull |-> FALSE, mcpTools |-> m, tools |-> t, mcpServerIds |-> i,
       instructions |-> "summarise"] :
        m \in {Absent} \cup {JsArray(l) : l \in ToolLists},
        t \in {Absent} \cup {JsArray(l) : l \in ToolLists},
        i \in {Absent, JsScalar("a"), JsArray(<<IdItem("b")>>)} }

NullData ==
    [isNull |-> TRUE, mcpTools |-> Absent, tools |-> Absent,
     mcpServerIds |-> Absent, instructions |-> ""]

\* tools.some / tools.every (typeof tool === 'string')
SomeString(items) == \E k \in 1..Len(items) : items[k].t = "string"
EveryString(items) == \A k \in 1..Len(items) : items[k].t = "string"

\* a migration that copies tools to mcpServerIds and keeps tools
MigrateMCPData_KeepsTools(data) ==
    IF data.isNull THEN data
    ELSE LET m1 == IF data.mcpTools.t = "array" /\ SomeString(data.mcpTools.items)
                     THEN [data EXCEPT !.mcpServerIds = data.mcpTools,
                                       !.mcpTools = Absent]
                     ELSE data
             m2 == IF m1.tools.t = "array" /\ EveryString(m1.tools.items)
                     THEN [m1 EXCEPT !.mcpServerIds = m1.tools]
                     ELSE m1
         \* data.mcpServerIds && !Array.isArray(data.mcpServerIds)
         IN IF m2.mcpServerIds.t = "string" /\ m2.mcpServerIds.s # ""
              THEN [m2 EXCEPT !.mcpServerIds = JsArray(<<IdItem(m2.mcpServerIds.s)>>)]
              ELSE m2

\* migrateMCPData(data)
MigrateMCPData(data) ==
    IF data.isNull THEN data
    ELSE LET m1 == IF data.mcpTools.t = "array" /\ SomeString(data.mcpTools.items)
                     THEN [data EXCEPT !.mcpServerIds = data.mcpTools,
                                       !.mcpTools = Absent]
                     ELSE data
             m2 == IF m1.tools.t = "array" /\ EveryString(m1.tools.items)
                     THEN [m1 EXCEPT !.mcpServerIds = m1.tools, !.tools = Absent]
                     ELSE m1
         \* data.mcpServerIds && !Array.isArray(data.mcpServerIds)
         IN IF m2.mcpServerIds.t = "string" /\ m2.mcpServerIds.s # ""
              THEN [m2 EXCEPT !.mcpServerIds = JsArray(<<IdItem(m2.mcpServerIds.s)>>)]
              ELSE m2

NoApplication == [op |-> "none"]

\* resolveMCPServers(serverIds) is called and returns or throws
CallResolveMCPServers(serverIds, store, dbOk, order) ==
    /\ LET r == ResolveMCPServers(serverIds, store, dbOk, order) IN
       fn' = [op |-> "resolveMCPServers", serverIds |-> serverIds,
              store |-> store, dbOk |-> dbOk, raised |-> r.raised,
              value |-> r.value]
    /\ UNCHANGED <<now, bucket, waiter, call, win, buckets, exec, calls>>
    /\ UNCHANGED <<waiters, approvals, reply, disp>>

\* migrateMCPData(data) is called and returns
CallMigrateMCPData(data) ==
    /\ fn' = [op |-> "migrateMCPData", input |-> data, output |-> MigrateMCPData(data)]
    /\ UNCHANGED <<now, bucket, waiter, call, win, buckets, exec, calls>>
    /\ UNCHANGED <<waiters, approvals, reply, disp>>

\* the ids of the list that the store holds
ExistingIds(serverIds, store) ==
    { serverIds[i].id : i \in 1..Len(serverIds) } \cap store

\* C17: resolveMCPServers applied to a list of ids never raises an error, and
\* when the store answers it returns exactly one configuration per id of the
\* list that exists in the store and nothing for the other ids; ["a","missing"]
\* against a store that knows only "a" yields exactly one configuration.
C17_MissingIdsAreSkipped ==
    (fn.op = "resolveMCPServers" /\ EveryString(fn.serverIds)) =>
      /\ ~fn.raised
      /\ fn.dbOk =>
           /\ Len(fn.value) = Cardinality(ExistingIds(fn.serverIds, fn.store))
           /\ \A id \in ExistingIds(fn.serverIds, fn.store) :
                Cardinality({i \in 1..Len(fn.value) :
                               fn.value[i] = ToConfig(ServerRow(id))}) = 1
           /\ (fn.serverIds = <<IdItem("a"), IdItem("missing")>>
                 /\ fn.store = {"a"})
                => fn.value = <<ToConfig(ServerRow("a"))>>

\* ["a", "missing"] resolved against a store that knows only "a"
C17_Witness ==
    /\ fn.op = "resolveMCPServers"
    /\ fn.serverIds = <<IdItem("a"), IdItem("missing")>>
    /\ fn.store = {"a"}
    /\ fn.dbOk
    /\ Len(fn.value) = 1
    /\ fn.value[1].name = "server-a"

\* the config's tools field is a list of bare ids
ToolsAreIds(data) ==
    ~data.isNull /\ data.tools.t = "array" /\ EveryString(data.tools.items)

\* the config's tools field holds full tool objects
ToolsAreObjects(data) ==
    /\ ~data.isNull
    /\ data.tools.t = "array"
    /\ Len(data.tools.items) > 0
    /\ \A k \in 1..Len(data.tools.items) : data.tools.items[k].t = "object"

\* C18 as stated: a tools field that is a list of bare ids becomes
\* mcpServerIds, with no tools field left; a config whose tools field holds
\* full tool objects is returned equal to the input.
C18_ToolsMigration ==
    fn.op = "migrateMCPData" =>
      /\ ToolsAreIds(fn.input) =>
           /\ fn.output.mcpServerIds = fn.input.tools
           /\ fn.output.tools = Absent
      /\ ToolsAreObjects(fn.input) => fn.output = fn.input

\* C18, amended: a tools field that is a list of bare ids becomes
\* mcpServerIds, with no tools field left; a tools field that holds full tool
\* objects is returned as it is, and the whole config is returned equal to the
\* input when, besides, mcpTools holds no bare id and mcpServerIds is absent
\* or a list.
C18_ToolsMigrationAmended ==
    fn.op = "migrateMCPData" =>
      /\ ToolsAreIds(fn.input) =>
           /\ fn.output.mcpServerIds = fn.input.tools
           /\ fn.output.tools = Absent
      /\ ToolsAreObjects(fn.input) =>
           /\ fn.output.tools = fn.input.tools
           /\ fn.output.instructions = fn.input.instructions
           /\ (~SomeString(fn.input.mcpTools.items)
                 /\ fn.input.mcpServerIds.t \in {"absent", "array"})
                => fn.output = fn.input

\* a config with bare ids in tools and other ids in mcpTools has been migrated
C18_Witness ==
    /\ fn.op = "migrateMCPData"
    /\ fn.input.tools = JsArray(<<IdItem("a"), IdItem("b")>>)
    /\ fn.input.mcpTools = JsArray(<<ObjectItem("search")>>)
    /\ fn.output.mcpServerIds = JsArray(<<IdItem("a"), IdItem("b")>>)
    /\ fn.output.tools = Absent

(***************************************************************************)
(* lib/workflow/token-optimizer.ts                                         *)
(***************************************************************************)
MaxLen == 6                           \* longest short prompt tried
MaxLimit == 5                         \* largest maxTokens tried on short prompts

LargeContentThreshold == 20000        \* prompt.length > 20000
CharsPerToken == 4                    \* maxTokens * 4, text.length / 4

CharAt(s, i) == SubSeq(s, i, i)
IsWhitespace(c) == c \in {" ", "\n", "\t"}

\* s repeated n times
RECURSIVE Repeat(_, _)
Repeat(s, n) ==
    IF n = 0 THEN ""
    ELSE IF n % 2 = 0 THEN LET h == Repeat(s, n \div 2) IN h \o h
    ELSE s \o Repeat(s, n - 1)

\* the elements of a set of numbers in increasing order
RECURSIVE Ascending(_)
Ascending(S) ==
    IF S = {} THEN <<>>
    ELSE LET least == CHOOSE x \in S : \A y \in S : x <= y
         IN <<least>> \o Ascending(S \ {least})

\* the non-empty pieces String.prototype.split leaves between separators, in
\* order (the empty pieces it also yields are dropped by every caller)
Pieces(s, separators) ==
    LET n == Len(s)
        IsSeparator(c) == c \in separators
        starts == { i \in 1..n :
                      /\ ~IsSeparator(CharAt(s, i))
                      /\ i = 1 \/ IsSeparator(CharAt(s, i - 1)) }
        endOf(i) == CHOOSE j \in i..n :
                      /\ j = n \/ IsSeparator(CharAt(s, j + 1))
                      /\ \A k \in i..j : ~IsSeparator(CharAt(s, k))
        order == Ascending(starts)
    IN [k \in 1..Len(order) |-> SubSeq(s, order[k], endOf(order[k]))]

\* String.prototype.trim
Trim(s) ==
    IF \A i \in 1..Len(s) : IsWhitespace(CharAt(s, i)) THEN ""
    ELSE LET first == CHOOSE i \in 1..Len(s) :
                        /\ ~IsWhitespace(CharAt(s, i))
                        /\ \A j \in 1..(i - 1) : IsWhitespace(CharAt(s, j))
             last == CHOOSE i \in 1..Len(s) :
                       /\ ~IsWhitespace(CharAt(s, i))
                       /\ \A j \in (i + 1)..Len(s) : IsWhitespace(CharAt(s, j))
         IN SubSeq(s, first, last)

\* Array.prototype.join
RECURSIVE Join(_, _)
Join(list, sep) ==
    IF Len(list) = 0 THEN ""
    ELSE IF Len(list) = 1 THEN list[1]
    ELSE list[1] \o sep \o Join(Tail(list), sep)

\* Array.prototype.filter, given the indexes of the elements its callback keeps
Filter(list, keptIndexes) ==
    LET kept == Ascending(keptIndexes)
    IN [k \in 1..Len(kept) |-> list[kept[k]]]

\* prompt.split(/[.!?]+/).filter(s => s.trim().length > 0)
Sentences(prompt) ==
    LET pieces == Pieces(prompt, {".", "!", "?"})
    IN Filter(pieces, { i \in 1..Len(pieces) : Len(Trim(pieces[i])) > 0 })

\* [sentences[0], ...sentences.slice(-3)]; an undefined sentences[0] joins as ''
ImportantSentences(sentences) ==
    IF Len(sentences) = 0 THEN <<"">>
    ELSE <<sentences[1]>>
           \o SubSeq(sentences, IF Len(sentences) > 3 THEN Len(sentences) - 2 ELSE 1,
                     Len(sentences))

\* words.slice(0, targetWords).join(' ') + '...' for words = optimized.split(' ').
\* (maxTokens / optimized.length) * words.length is computed in doubles; its
\* floor is the exact one for every optimized.length below 22.
TruncateWords(optimized, maxTokens) ==
    LET spaces == { i \in 1..Len(optimized) : CharAt(optimized, i) = " " }
        words == Cardinality(spaces) + 1
        targetWords == (maxTokens * words) \div Len(optimized)
        kept ==
          IF targetWords = 0 THEN ""
          ELSE IF targetWords >= words THEN optimized
          ELSE LET cut == CHOOSE p \in spaces :
                            Cardinality({q \in spaces : q < p}) = targetWords - 1
               IN SubSeq(optimized, 1, cut - 1)
    IN kept \o "..."

\* the filter of optimizeLargeContent on a trimmed line
IsEssentialLine(trimmed) ==
    LET n == Len(trimmed) IN
    \/ /\ n > 20 /\ n < 100
       /\ \/ Includes(trimmed, "Mouse")
          \/ Includes(trimmed, "Wireless")
          \/ Includes(trimmed, "Bluetooth")
    \/ n < 50 /\ Includes(trimmed, "$")
    \/ n < 50 /\ (Includes(trimmed, "stars") \/ Includes(trimmed, "rating"))
    \/ /\ n < 100
       /\ \/ Includes(trimmed, "DPI")
          \/ Includes(trimmed, "battery")
          \/ Includes(trimmed, "rechargeable")
    \/ n < 50 /\ (Includes(trimmed, "bought") \/ Includes(trimmed, "customers"))

\* optimizeLargeContent(content, maxTokens)
OptimizeLargeContent(content, maxTokens) ==
    LET maxChars == maxTokens * CharsPerToken
        lines == Pieces(content, {"\n"})
        trimmedLines == [k \in 1..Len(lines) |-> Trim(lines[k])]
        essentialLines ==
          Filter(trimmedLines,
                 { k \in 1..Len(trimmedLines) : IsEssentialLine(trimmedLines[k]) })
        optimized == Join(essentialLines, "\n")
        half == maxChars \div 2
        firstPart == SubSeq(content, 1, Min(half, Len(content)))
        lastPart == SubSeq(content, Max(0, Len(content) - half) + 1, Len(content))
    IN IF Len(essentialLines) > 0 /\ Len(optimized) <= maxChars
         THEN optimized
         ELSE firstPart \o "\n\n... (content truncated) ...\n\n" \o lastPart

\* optimizePrompt(prompt, maxTokens)
OptimizePrompt(prompt, maxTokens) ==
    IF Len(prompt) <= maxTokens THEN prompt
    ELSE IF Len(prompt) > LargeContentThreshold
      THEN OptimizeLargeContent(prompt, maxTokens)
    ELSE LET optimized == Join(ImportantSentences(Sentences(prompt)), ". ")
         IN IF Len(optimized) > maxTokens
              THEN TruncateWords(optimized, maxTokens)
              ELSE optimized

\* estimateTokenCount(text)
EstimateTokenCount(text) == CeilDiv(Len(text), CharsPerToken)

\* short prompts: every text over four characters, up to MaxLen long
RECURSIVE Texts(_)
Texts(n) ==
    IF n = 0 THEN {""}
    ELSE Texts(n - 1)
           \cup { t \o c : t \in {x \in Texts(n - 1) : Len(x) = n - 1}, c \in {"a", "b", ".", " "} }

\* scraped pages: one long line, and the same after a product title and price
LargeTexts ==
    { Repeat("x", 25000),
      "Wireless Mouse M185 - great value\n$19.99\n" \o Repeat("x", 25000) }

\* no function has been applied
InitFunctions ==
    /\ now = 0
    /\ bucket = NewBucket(3, 5, 0)
    /\ waiter = IdleWaiter
    /\ call = NoCall
    /\ win = ClosedWin
    /\ buckets = NewProviderRateLimiter(0)
    /\ exec = NotRunning
    /\ calls = <<>>
    /\ waiters = <<>>
    /\ approvals = <<>>
    /\ reply = <<>>
    /\ disp = <<>>
    /\ fn = NoApplication

\* optimizePrompt(prompt, maxTokens) is called
CallOptimizePrompt(prompt, maxTokens) ==
    /\ fn' = [op |-> "optimizePrompt", prompt |-> prompt, maxTokens |-> maxTokens,
              output |-> OptimizePrompt(prompt, maxTokens), reapplied |-> FALSE]
    /\ UNCHANGED <<now, bucket, waiter, call, win, buckets, exec, calls>>
    /\ UNCHANGED <<waiters, approvals, reply, disp>>

\* optimizePrompt is called again on what it returned, with the same limit
ReapplyOptimizePrompt ==
    /\ fn.op = "optimizePrompt"
    /\ ~fn.reapplied
    /\ fn' = [op |-> "optimizePrompt", prompt |-> fn.output,
              maxTokens |-> fn.maxTokens,
              output |-> OptimizePrompt(fn.output, fn.maxTokens),
              reapplied |-> TRUE]
    /\ UNCHANGED <<now, bucket, waiter, call, win, buckets, exec, calls>>
    /\ UNCHANGED <<waiters, approvals, reply, disp>>

\* the headers of failed calls: none attached, a plain object, or a Headers
\* object carrying any of four rate-limit headers
RateLimitHeaders ==
    { NoHeaders, PlainHeaders }
      \cup { HeadersOf(retryAfter, remaining, limit, reset) :
               retryAfter \in {"", "7"}, remaining \in {"", "0", "1000"},
               limit \in {"", "50000"}, reset \in {"", "2026-01-01T00:10:00Z"} }

\* extractRateLimitInfo(error) is called
CallExtractRateLimitInfo(error) ==
    /\ fn' = [op |-> "extractRateLimitInfo", error |-> error,
              output |-> ExtractRateLimitInfo(error)]
    /\ UNCHANGED <<now, bucket, waiter, call, win, buckets, exec, calls>>
    /\ UNCHANGED <<waiters, approvals, reply, disp>>

\* shouldRetry(rateLimitInfo, maxRetries) is called at time t
CallShouldRetry(rateLimitInfo, maxRetries, t) ==
    /\ fn' = [op |-> "shouldRetry", info |-> rateLimitInfo,
              retriesLeft |-> maxRetries, at |-> t,
              output |-> ShouldRetry(rateLimitInfo, maxRetries, t)]
    /\ UNCHANGED <<now, bucket, waiter, call, win, buckets, exec, calls>>
    /\ UNCHANGED <<waiters, approvals, reply, disp>>

\* one application of a function of lib/mcp/resolver.ts or of the rate-limit
\* utilities (shouldRetry on what extractRateLimitInfo yields, up to and past
\* five minutes before the reset), or a first call of
\* optimizePrompt on a short text, or on a large one with a limit
\* executeAgentNodeInternal passes, and then a call on its result
NextFunctions ==
    \/ /\ fn = NoApplication
       /\ \E serverIds \in IdLists(MaxIds)
                         \cup { <<ObjectItem("search")>>,
                                <<ObjectItem("search"), ObjectItem("fetch")>>,
                                <<ObjectItem("search"), IdItem("a")>>,
                                <<IdItem("a"), ObjectItem("search")>>,
                                <<IdItem("b"), ObjectItem("fetch"), IdItem("a")>> },
             store \in SUBSET KnownIds, dbOk \in BOOLEAN :
            \E order \in RowOrders(Matching(serverIds, store)) :
              CallResolveMCPServers(serverIds, store, dbOk, order)
    \/ /\ fn = NoApplication
       /\ \E data \in NodeData \cup {NullData} : CallMigrateMCPData(data)
    \/ /\ fn = NoApplication
       /\ \E prompt \in Texts(MaxLen), maxTokens \in 1..MaxLimit :
            CallOptimizePrompt(prompt, maxTokens)
    \/ /\ fn = NoApplication
       /\ \E prompt \in LargeTexts, maxTokens \in {3000, 8000} :
            CallOptimizePrompt(prompt, maxTokens)
    \/ ReapplyOptimizePrompt
    \/ /\ fn = NoApplication
       /\ \E h \in RateLimitHeaders, isError \in BOOLEAN :
            CallExtractRateLimitInfo(
              [isError |-> isError, headers |-> h,
               message |-> IF isError THEN "429 Too Many Requests" ELSE ""])
    \/ /\ fn = NoApplication
       /\ \E h \in RateLimitHeaders, maxRetries \in 0..MaxBudget,
             t \in {0, 299999, 300000, 300001, 600000, 700000} :
            CallShouldRetry(ExtractRateLimitInfo([NewError("") EXCEPT !.headers = h]),
                            maxRetries, t)

SpecFunctions == InitFunctions /\ [][NextFunctions]_vars

\* C19: optimizePrompt is idempotent: applied to its own output with the same
\* limit it returns that output unchanged.
C19_OptimizePromptIdempotent ==
    (fn.op = "optimizePrompt" /\ fn.reapplied) => fn.output = fn.prompt

\* C20: when the text exceeds the limit, the estimated token count of
\* optimizePrompt's output is at most that of the input; when the text fits
\* the limit the output is the input unchanged.
C20_EstimateNeverGrows ==
    fn.op = "optimizePrompt" =>
      /\ Len(fn.prompt) > fn.maxTokens =>
           EstimateTokenCount(fn.output) <= EstimateTokenCount(fn.prompt)
      /\ Len(fn.prompt) <= fn.maxTokens => fn.output = fn.prompt

(***************************************************************************)
(* Claims about the rate-limit utilities                                   *)
(***************************************************************************)
\* the descriptor reports no tokens left and a reset more than five minutes
\* after the moment t
ResetFarAway(info, t) ==
    /\ ~info.isNull
    /\ info.remainingTokens = 0
    /\ info.resetTime = "2026-01-01T00:10:00Z"
    /\ 600000 - t > 300000

\* C21: shouldRetry(descriptor, retriesLeft) returns false whenever
\* retriesLeft = 0, returns false when the descriptor's remaining tokens are 0
\* and its reset time is more than 5 minutes in the future, and returns true
\* in every other case.
C21_ShouldRetryDecision ==
    fn.op = "shouldRetry" =>
      fn.output = ~(fn.retriesLeft = 0 \/ ResetFarAway(fn.info, fn.at))

\* C21, amended: shouldRetry returns false when there is no descriptor (null),
\* false when retriesLeft = 0, false when the descriptor's remaining tokens are
\* 0 and its reset time is more than 5 minutes in the future, and true in
\* every other case.
C21_ShouldRetryDecisionAmended ==
    fn.op = "shouldRetry" =>
      fn.output = ~(fn.info.isNull \/ fn.retriesLeft = 0
                      \/ ResetFarAway(fn.info, fn.at))

\* retries are left, but no tokens are and the reset is five minutes and one
\* millisecond away: the answer is false
C21_Witness ==
    /\ fn.op = "shouldRetry"
    /\ fn.retriesLeft = 2
    /\ ~fn.info.isNull
    /\ fn.info.remainingTokens = 0
    /\ fn.at = 299999
    /\ fn.output = FALSE

\* the descriptor in which every field holds its fallback constant
FallbackDescriptor ==
    [isNull |-> FALSE, retryAfter |-> 60, resetTime |-> "",
     remainingTokens |-> 0, limitTokens |-> 30000,
     outputTokensRemaining |-> 0, outputTokensLimit |-> 8000,
     requestsRemaining |-> 0, requestsLimit |-> 50,
     totalTokensRemaining |-> 0, totalTokensLimit |-> 38000]

\* the error carries none of the rate-limit headers: no headers at all, an
\* object without a get method, or a Headers object that has none of them
HeadersAbsent(error) ==
    \/ error.headers.kind \in {"none", "plain"}
    \/ /\ error.headers.kind = "Headers"
       /\ error.headers = HeadersOf("", "", "", "")

\* C23: for a failed call whose rate-limit headers are absent, an error object
\* that carries no headers at all included, extractRateLimitInfo yields a
\* descriptor in which every field holds its fallback constant, with
\* retryAfter = 60.
C23_AbsentHeadersGiveFallbacks ==
    (fn.op = "extractRateLimitInfo" /\ HeadersAbsent(fn.error))
      => fn.output = FallbackDescriptor

\* C23, amended: for a failed call whose error carries a headers object
\* without the rate-limit headers, extractRateLimitInfo yields a descriptor in
\* which every field holds its fallback constant, with retryAfter = 60, and
\* every header that is absent beside present ones gives its field the
\* fallback; for an error that carries no headers at all it yields null.
C23_AbsentHeadersGiveFallbacksAmended ==
    fn.op = "extractRateLimitInfo" =>
      /\ fn.error.headers.kind = "none" => fn.output = Null
      /\ (fn.error.headers.kind # "none" /\ HeadersAbsent(fn.error))
           => fn.output = FallbackDescriptor
      /\ fn.error.headers.kind = "Headers" =>
           /\ ~fn.output.isNull
           /\ \A name \in {"retryAfter", "resetTime", "remainingTokens", "limitTokens"} :
                LET header == CASE name = "retryAfter" -> fn.error.headers.retryAfter
                                [] name = "resetTime" -> fn.error.headers.reset
                                [] name = "remainingTokens" -> fn.error.headers.remaining
                                [] name = "limitTokens" -> fn.error.headers.limit
                IN header = "" => fn.output[name] = FallbackDescriptor[name]
           /\ \A name \in {"outputTokensRemaining", "outputTokensLimit",
                           "requestsRemaining", "requestsLimit",
                           "totalTokensRemaining", "totalTokensLimit"} :
                fn.output[name] = FallbackDescriptor[name]

\* a response with its limit header but without retry-after: the descriptor
\* holds the limit sent and the fallback of 60 seconds
C23_Witness ==
    /\ fn.op = "extractRateLimitInfo"
    /\ fn.error.headers.kind = "Headers"
    /\ fn.error.headers.retryAfter = ""
    /\ fn.error.headers.limit = "50000"
    /\ fn.output.limitTokens = 50000
    /\ fn.output.retryAfter = 60

(***************************************************************************)
(* Claims about the registry of provider buckets                           *)
(***************************************************************************)
\* C22: getBucket(p) for a provider id p other than anthropic, openai and
\* groq returns the most conservative configured bucket, the anthropic one
\* (3 tokens/s, burst 5), and the same one on every call: what executions
\* of such a provider are granted comes out of that bucket and no other
\* bucket is touched; the registry holds the three entries it was
\* constructed with, with their rates and capacities, in every state.
C22_UnknownProviderFallsBack ==
    /\ DOMAIN buckets = {"anthropic", "openai", "groq"}
    /\ \A p \in DOMAIN buckets :
         /\ buckets[p].tokensPerSecond = NewProviderRateLimiter(0)[p].tokensPerSecond
         /\ buckets[p].maxTokens = NewProviderRateLimiter(0)[p].maxTokens
    /\ \A p \in {"mistral", "", "Anthropic", "openai/gpt-4o", "google"} :
         LET b == buckets[GetBucket(buckets, p)] IN
         /\ GetBucket(buckets, p) = "anthropic"
         /\ b.tokensPerSecond = 3 /\ b.maxTokens = 5
         /\ \A q \in DOMAIN buckets :
              /\ b.tokensPerSecond <= buckets[q].tokensPerSecond
              /\ b.maxTokens <= buckets[q].maxTokens
    /\ waiters["run1"].provider = "mistral" =>
         /\ SumGranted(Executions) * OneToken + buckets["anthropic"].tokens
              <= 5 * OneToken + 3 * buckets["anthropic"].lastRefill
         /\ buckets["openai"] = NewProviderRateLimiter(0)["openai"]
         /\ buckets["groq"] = NewProviderRateLimiter(0)["groq"]

\* executions of a provider without an entry have been granted the whole
\* burst of the anthropic bucket, and one of them is waiting for its refill
C22_Witness ==
    /\ \A i \in Executions : waiters[i].provider = "mistral"
    /\ SumGranted(Executions) >= 5
    /\ buckets["anthropic"].tokens < OneToken
    /\ \E i \in Executions : waiters[i].pc = "sleep"

(***************************************************************************)
(* Claims about the provider of an attempt                                 *)
(***************************************************************************)
\* C24: for every model string, the provider id whose bucket an attempt of
\* executeAgentNode waits on is the provider id the dispatcher selects for
\* the call of that attempt, and the token of the attempt was taken from that
\* provider's bucket; a model string without '/' is "openai" in both places.
C24_SameProviderInBothPlaces ==
    (exec.pc = "dispatch" /\ exec.hasToken = "yes") =>
      /\ RateLimiterProvider(exec.model) = DispatchProvider(exec.model)
      /\ buckets[GetBucket(buckets, DispatchProvider(exec.model))]
           # NewProviderRateLimiter(0)[GetBucket(buckets, DispatchProvider(exec.model))]
      /\ ~Includes(exec.model, "/") /\ exec.model # "" =>
           RateLimiterProvider(exec.model) = "openai"

(***************************************************************************)
(* executeAgentNodeInternal: from the node's data to the provider call     *)
(***************************************************************************)
\* executeAgentNodeInternal is entered with the node's data; apiKeys holds
\* every key
InitNode ==
    /\ now = 0
    /\ bucket = NewBucket(3, 5, 0)
    /\ waiter = IdleWaiter
    /\ call = NoCall
    /\ win = ClosedWin
    /\ buckets = NewProviderRateLimiter(0)
    /\ exec = NotRunning
    /\ calls = <<>>
    /\ waiters = <<>>
    /\ approvals = <<>>
    /\ reply = <<>>
    /\ fn = <<>>
    /\ \E data \in NodeData :
         disp = [pc |-> "resolve", data |-> data, mcpTools |-> <<>>,
                 queried |-> FALSE, dbOk |-> TRUE, store |-> {},
                 hasMcpTools |-> FALSE, result |-> "none"]

\* migrateMCPData, then resolveMCPServers when the migrated data names server
\* ids; the table holds the rows of store, and its query throws unless dbOk
ResolveNodeTools(store, dbOk, order) ==
    /\ disp.pc = "resolve"
    /\ LET migratedData == MigrateMCPData(disp.data)
           legacy == IF migratedData.mcpTools.t = "array"
                       THEN migratedData.mcpTools.items ELSE <<>>
           named == migratedData.mcpServerIds.t = "array"
                      /\ Len(migratedData.mcpServerIds.items) > 0
           queried == named /\ migratedData.mcpServerIds.items[1].t = "string"
           r == ResolveMCPServers(migratedData.mcpServerIds.items, store, dbOk, order)
       IN /\ order \in RowOrders(IF named
                                   THEN Matching(migratedData.mcpServerIds.items, store)
                                   ELSE {})
          /\ queried \/ (store = {} /\ dbOk)
          /\ disp' = IF named /\ r.raised
                       THEN [disp EXCEPT !.pc = "done", !.result = "throw",
                                         !.queried = queried, !.dbOk = dbOk,
                                         !.store = store]
                       ELSE [disp EXCEPT !.pc = "call", !.queried = queried,
                                         !.dbOk = dbOk, !.store = store,
                                         !.mcpTools = IF named THEN r.value
                                                      ELSE legacy]
    /\ UNCHANGED <<now, bucket, waiter, call, win, buckets, exec, calls>>
    /\ UNCHANGED <<waiters, approvals, reply, fn>>

\* the provider is called, with the tools when mcpTools.length > 0, and
\* answers or throws
CallProvider(ok) ==
    /\ disp.pc = "call"
    /\ disp' = [disp EXCEPT !.pc = "done",
                            !.hasMcpTools = Len(disp.mcpTools) > 0,
                            !.result = IF ok THEN "return" ELSE "throw"]
    /\ UNCHANGED <<now, bucket, waiter, call, win, buckets, exec, calls>>
    /\ UNCHANGED <<waiters, approvals, reply, fn>>

NextNode ==
    \/ \E store \in SUBSET KnownIds, dbOk \in BOOLEAN :
         \E order \in UNION { RowOrders(S) : S \in SUBSET store } :
           ResolveNodeTools(store, dbOk, order)
    \/ \E ok \in BOOLEAN : CallProvider(ok)

SpecNode == InitNode /\ [][NextNode]_vars

\* C25: a failure of the store while the node's server ids are resolved is
\* not swallowed: the node does not go on to the provider call as if it had
\* no tools, and ends as a failure.
C25_StoreFailureSurfaces ==
    (disp.pc # "resolve" /\ disp.queried /\ ~disp.dbOk) =>
      /\ disp.pc = "done"
      /\ disp.result = "throw"
      /\ ~disp.hasMcpTools

(***************************************************************************)
(* Claims about lists that mix bare ids and configuration objects          *)
(***************************************************************************)
\* C26: for a list mixing bare server ids and objects that carry a full
\* configuration, in any order, every element of resolveMCPServers' result is
\* a resolved configuration object: no bare id is returned, and every bare
\* id is looked up in the store (those the store holds are in the result).
C26_MixedListsAreNormalized ==
    (fn.op = "resolveMCPServers" /\ fn.dbOk
       /\ SomeString(fn.serverIds) /\ ~EveryString(fn.serverIds)) =>
      /\ \A k \in 1..Len(fn.value) :
           ~("t" \in DOMAIN fn.value[k] /\ fn.value[k].t = "string")
      /\ \A i \in 1..Len(fn.serverIds) :
           (fn.serverIds[i].t = "string" /\ fn.serverIds[i].id \in fn.store) =>
             \E k \in 1..Len(fn.value) :
               fn.value[k] = ToConfig(ServerRow(fn.serverIds[i].id))

(***************************************************************************)
(* Claims about the token of an attempt                                    *)
(***************************************************************************)
\* C27: in every execution of executeAgentNode each invocation of the
\* dispatcher (executeAgentNodeInternal) comes directly after exactly one
\* successful token acquisition of the same attempt, the acquisition takes a
\* token out of the provider's bucket, and the tokens acquired by the call
\* equal its invocations (plus the one just acquired while the invocation is
\* about to start); every attempt, a retry after backoff too, acquires a
\* token of its own.
C27_OneTokenPerInvocation ==
    /\ [](/\ exec.acquired
               = exec.invocations + (IF exec.pc = "dispatch" THEN 1 ELSE 0)
          /\ Len(calls) = exec.invocations
          /\ \A i \in 1..Len(calls) : calls[i].attempt = i - 1)
    /\ [][/\ exec'.invocations # exec.invocations =>
               /\ exec.pc = "dispatch" /\ exec.hasToken = "yes"
               /\ exec'.invocations = exec.invocations + 1
               /\ exec'.acquired = exec.acquired
               /\ exec.acquired = exec'.invocations
          /\ exec'.acquired # exec.acquired =>
               /\ exec.pc \in {"attempt", "waiting"}
               /\ exec'.pc = "dispatch"
               /\ exec'.acquired = exec.acquired + 1
               /\ LET key == GetBucket(buckets, RateLimiterProvider(exec.model))
                  IN buckets'[key].tokens
                       <= RefillTokens(buckets[key], now').tokens - OneToken
         ]_vars

\* a call that was throttled once and answered on its second attempt: two
\* invocations, two tokens
C27_Witness ==
    /\ exec.pc = "done"
    /\ exec.result.kind = "return"
    /\ exec.attempt = 1
    /\ exec.invocations = 2
    /\ exec.acquired = 2
    /\ Len(exec.delays) = 1

(***************************************************************************)
(* Claims about the tokens a waitForToken call removes                     *)
(***************************************************************************)
\* C28: every call of TokenBucket.waitForToken(timeoutMs) removes exactly one
\* token from the bucket when it returns true and none when it returns false
\* (a pass of its loop that does not return true removes nothing), for every
\* timeoutMs; with timeoutMs <= 0 it returns false at once and leaves the
\* bucket as it was; when a token is available at the time of the call and
\* timeoutMs > 0, it returns true without waiting.
C28_WaitForTokenRemovesOneToken ==
    [][(waiter' # waiter /\ waiter'.pc # "idle") =>
         LET refilled == RefillTokens(bucket, now').tokens IN
         /\ (waiter'.pc = "returned" /\ waiter'.ret) =>
              bucket'.tokens = refilled - OneToken
         /\ ~(waiter'.pc = "returned" /\ waiter'.ret) =>
              bucket'.tokens \in {bucket.tokens, refilled}
         /\ (waiter.pc = "idle" /\ waiter'.timeoutMs <= 0) =>
              /\ waiter'.pc = "returned" /\ ~waiter'.ret
              /\ bucket' = bucket
         /\ (waiter.pc = "idle" /\ waiter'.timeoutMs > 0 /\ refilled >= OneToken) =>
              /\ waiter'.pc = "returned" /\ waiter'.ret
              /\ now' = waiter'.startTime
      ]_vars

\* a call with a negative timeout has returned false on a full bucket, which
\* still holds every token
C28_Witness ==
    /\ waiter.pc = "returned"
    /\ ~waiter.ret
    /\ waiter.timeoutMs < 0
    /\ bucket.tokens = bucket.maxTokens * OneToken

(***************************************************************************)
(* Claims about the server references a migration keeps                    *)
(***************************************************************************)
\* the bare server ids a field of node data holds
BareIds(field) ==
    IF field.t = "string" THEN {field.s} \ {""}
    ELSE { field.items[k].id : k \in { j \in 1..Len(field.items) :
                                         field.items[j].t = "string" } }

\* C29: migrateMCPData never loses a server reference: each bare server id
\* in the input's mcpTools, tools or mcpServerIds is in the output's
\* mcpServerIds, also when more than one of these fields is populated.
C29_NoServerReferenceLost ==
    (fn.op = "migrateMCPData" /\ ~fn.input.isNull) =>
      (BareIds(fn.input.mcpTools) \cup BareIds(fn.input.tools)
         \cup BareIds(fn.input.mcpServerIds))
        \subseteq BareIds(fn.output.mcpServerIds)

(***************************************************************************)
(* hooks/useApprovalWatch.ts: the hook, its fetches and the table          *)
(***************************************************************************)
MaxPolls == 3                         \* fetches the hook issues in a behaviour

\* the component is mounted with no approvalId; both records exist and are
\* pending.  disp is the hook: its prop, its result state (forId is the id its
\* value was fetched for) and whether it has reported the current approval as
\* approved or rejected; waiters are the fetches under way.
InitWatch ==
    /\ now = 0
    /\ bucket = NewBucket(3, 5, 0)
    /\ waiter = IdleWaiter
    /\ call = NoCall
    /\ win = ClosedWin
    /\ buckets = NewProviderRateLimiter(0)
    /\ exec = NotRunning
    /\ calls = <<>>
    /\ waiters = {}
    /\ approvals = [id \in ApprovalIds |->
                      [NoRow(id) EXCEPT !.present = TRUE, !.status = "pending",
                                        !.history = <<"pending">>]]
    /\ reply = [op |-> "none", approvalId |-> "", status |-> "", approval |-> NullRow]
    /\ disp = [approvalId |-> "", issued |-> 0, resolvedSeen |-> FALSE,
               result |-> [isNull |-> TRUE, status |-> "", forId |-> ""]]
    /\ fn = <<>>

\* the approvalId prop changes to id ("" is null): the effect of the old id is
\* cleaned up (its interval is cleared, its fetches are not cancelled) and the
\* effect runs again: setResult(null) without an id, else the initial fetch
ChangeApprovalId(id) ==
    /\ id # disp.approvalId
    /\ disp.issued < MaxPolls
    /\ IF id = ""
         THEN /\ disp' = [disp EXCEPT !.approvalId = id, !.resolvedSeen = FALSE,
                                      !.result = [isNull |-> TRUE, status |-> "",
                                                  forId |-> ""]]
              /\ UNCHANGED waiters
         ELSE /\ disp' = [disp EXCEPT !.approvalId = id, !.resolvedSeen = FALSE,
                                      !.issued = @ + 1]
              /\ waiters' = waiters \cup {[n |-> disp.issued + 1, id |-> id,
                                           served |-> FALSE, status |-> ""]}
    /\ UNCHANGED <<now, bucket, waiter, call, win, buckets, exec, calls>>
    /\ UNCHANGED <<approvals, reply, fn>>

\* the 2-second interval fires: fetchApprovalStatus is called again
PollTick ==
    /\ disp.approvalId # ""
    /\ disp.issued < MaxPolls
    /\ disp' = [disp EXCEPT !.issued = @ + 1]
    /\ waiters' = waiters \cup {[n |-> disp.issued + 1, id |-> disp.approvalId,
                                 served |-> FALSE, status |-> ""]}
    /\ UNCHANGED <<now, bucket, waiter, call, win, buckets, exec, calls>>
    /\ UNCHANGED <<approvals, reply, fn>>

\* watchApprovalStatus(approvalId) of fetch r reads the table
ServeWatch(r) ==
    /\ r \in waiters
    /\ ~r.served
    /\ LET approval == GetApprovalById(approvals, r.id) IN
       waiters' = (waiters \ {r})
                    \cup {[r EXCEPT !.served = TRUE,
                                    !.status = IF approval.isNull THEN "not_found"
                                               ELSE approval.row.status]}
    /\ UNCHANGED <<now, bucket, waiter, call, win, buckets, exec, calls>>
    /\ UNCHANGED <<approvals, reply, disp, fn>>

\* the await of fetch r ends: setResult(status) when it resolved, nothing but
\* a log entry when it rejected
ResponseArrives(r, ok) ==
    /\ r \in waiters
    /\ r.served
    /\ waiters' = waiters \ {r}
    /\ disp' = IF ok
                 THEN [disp EXCEPT
                         !.result = [isNull |-> FALSE, status |-> r.status,
                                     forId |-> r.id],
                         !.resolvedSeen =
                           @ \/ (r.id = disp.approvalId
                                   /\ r.status \in {"approved", "rejected"})]
                 ELSE disp
    /\ UNCHANGED <<now, bucket, waiter, call, win, buckets, exec, calls>>
    /\ UNCHANGED <<approvals, reply, fn>>

\* the hook, its fetches and their responses in any interleaving, while a
\* pending record is answered, once
NextWatch ==
    \/ \E id \in ApprovalIds \cup {""} : ChangeApprovalId(id)
    \/ PollTick
    \/ \E r \in waiters : ServeWatch(r)
    \/ \E r \in waiters, ok \in BOOLEAN : ResponseArrives(r, ok)
    \/ \E id \in ApprovalIds, s \in {"approved", "rejected"} :
         /\ approvals[id].status = "pending"
         /\ UpdateApprovalStatus(id, s, "alice", 0)

SpecWatch == InitWatch /\ [][NextWatch]_vars

\* C30: for records whose stored status changes at most once, under every
\* interleaving of the hook's poll requests and their responses, once the hook
\* has reported the current approval approved or rejected it does not report
\* pending afterwards, and after approvalId has changed it does not report a
\* status fetched for the previous approvalId.
C30_WatchNeverRegresses ==
    \* const status = result?.status || "not_found"
    LET status == IF disp.result.isNull \/ disp.result.status = ""
                    THEN "not_found" ELSE disp.result.status
    IN /\ (disp.resolvedSeen /\ disp.result.forId = disp.approvalId)
            => status # "pending"
       /\ ~disp.result.isNull => disp.result.forId = disp.approvalId

====
